---- MODULE Spec2Model ----
(***************************************************************************)
(* A model of liblsdj: the block-packed stream codec (compression.c), the  *)
(* song image (de)serializer (song.c) and the save container (sav.c).      *)
(*                                                                         *)
(* Bytes are naturals 0..255.  Streams are byte sequences addressed by a   *)
(* 0-based position; position p is element p + 1 of the sequence.          *)
(* The codec is modelled on a scaled-down geometry: the image length, the  *)
(* block length and the number of blocks are named bounds, the marker      *)
(* bytes and the two 16-byte default constants keep their real values.     *)
(***************************************************************************)
EXTENDS Naturals, Integers, Sequences, FiniteSets, TLC

\* ------------------------------------------------------------------------
\* Geometry of the codec (scaled) and its byte constants (real values)
\* ------------------------------------------------------------------------

\* bytes of one decompressed song image handled by the codec (0x8000 in the build)
LSDJ_SONG_BYTE_COUNT == 20
\* bytes of one block (0x200 in the build)
LSDJ_BLOCK_SIZE == 8
\* number of blocks of the block region (191 in the build)
LSDJ_BLOCK_COUNT == 3
\* blocks the write stream can grow beyond the block region (a file grows)
WExtraBlocks == 2
\* bytes the decompression output stream accepts beyond one song image
OutExtra == 3
\* number of pattern segments an input image is composed of
MaxSegs == 2
\* number of events a hand-made compressed stream is composed of
MaxEvents == 3

RUN_LENGTH_ENCODING_BYTE == 192
SPECIAL_ACTION_BYTE == 224
LSDJ_DEFAULT_WAVE_BYTE == 240
LSDJ_DEFAULT_WAVE_LENGTH == 16
LSDJ_DEFAULT_WAVE ==
  << 142, 205, 204, 187, 170, 169, 153, 136, 135, 118, 102, 85, 84, 67, 50, 49 >>
LSDJ_DEFAULT_INSTRUMENT_BYTE == 241
LSDJ_DEFAULT_INSTRUMENT_LENGTH == 16
LSDJ_DEFAULT_INSTRUMENT ==
  << 168, 0, 0, 255, 0, 0, 3, 0, 0, 208, 0, 0, 0, 243, 0, 0 >>
LSDJ_NO_NEXT_BLOCK_INDEX == 65535
LSDJ_END_OF_FILE_BLOCK_INDEX == 255

Max(a, b) == IF a >= b THEN a ELSE b
Min(a, b) == IF a <= b THEN a ELSE b

\* n copies of the byte sequence s
Repeat(s, n) ==
  IF n = 0 THEN << >> ELSE [ i \in 1..(n * Len(s)) |-> s[((i - 1) % Len(s)) + 1] ]

\* the first n elements of s (all of s when it is shorter)
Take(s, n) == SubSeq(s, 1, Min(n, Len(s)))

\* ------------------------------------------------------------------------
\* Byte streams (lsdj_vio_t): a buffer of fixed capacity and a position
\* ------------------------------------------------------------------------

\* a write stream: buf has the capacity as its length; hi is the furthest
\* position any write has reached
VioNew(buf, pos) == [buf |-> buf, pos |-> pos, hi |-> pos, ok |-> TRUE]

\* lsdj_vio_write / lsdj_vio_write_byte / lsdj_vio_write_repeat: the bytes
\* that fit are stored; the call fails when the capacity is exceeded
VioWrite(w, bytes) ==
  LET n == Min(Len(bytes), Max(Len(w.buf) - w.pos, 0))
  IN [ buf |-> [ i \in 1..Len(w.buf) |->
                   IF i > w.pos /\ i <= w.pos + n THEN bytes[i - w.pos]
                                                  ELSE w.buf[i] ],
       pos |-> w.pos + n,
       hi  |-> Max(w.hi, w.pos + n),
       ok  |-> w.ok /\ n = Len(bytes) ]

\* lsdj_vio_seek(.., SEEK_SET)
VioSeek(w, pos) == [ w EXCEPT !.pos = pos ]

\* ------------------------------------------------------------------------
\* lsdj_compress
\* ------------------------------------------------------------------------

\* memcmp(read, pattern, 16) == 0, read being a 0-based offset into data
MatchesAt(data, read, pattern) ==
  \A k \in 1..Len(pattern) : data[read + k] = pattern[k]

\* the two "while (read + 16 < end && memcmp(..) == 0 && count != 0xFF)"
\* loops; end is the offset of "data + LSDJ_SONG_BYTE_COUNT" (line 391)
\* the value of the counter, count at the start, when the loop is left: the
\* first number of rounds k after which the loop condition is false
CountDefault(data, read, end, pattern, count) ==
  LET Continues(k) == /\ read + k * Len(pattern) + Len(pattern) < end
                      /\ MatchesAt(data, read + k * Len(pattern), pattern)
                      /\ count + k # 255
  IN count + (CHOOSE k \in 0..(255 - count) :
                ~Continues(k) /\ \A j \in 0..(k - 1) : Continues(j))

\* a run counter that stops one short of the cap
CountRun_StopsAt254(data, read, end, c, count) ==
  LET Continues(k) == /\ read + k < end
                      /\ data[read + k + 1] = c
                      /\ count + k # 254
  IN count + (CHOOSE k \in 0..(255 - count) :
                ~Continues(k) /\ \A j \in 0..(k - 1) : Continues(j))

\* "while (read < end && *read == c && count != 0xFF)", likewise
CountRun(data, read, end, c, count) ==
  LET Continues(k) == /\ read + k < end
                      /\ data[read + k + 1] = c
                      /\ count + k # 255
  IN count + (CHOOSE k \in 0..(255 - count) :
                ~Continues(k) /\ \A j \in 0..(k - 1) : Continues(j))

\* the event the loop body builds at offset read, and the offset after it
NextEvent(data, read, end) ==
  LET waves == CountDefault(data, read, end, LSDJ_DEFAULT_WAVE, 0)
      instruments == CountDefault(data, read, end, LSDJ_DEFAULT_INSTRUMENT, 0)
      c == data[read + 1]
  IN IF waves > 0
     THEN [ event |-> << SPECIAL_ACTION_BYTE, LSDJ_DEFAULT_WAVE_BYTE, waves >>,
            read  |-> read + waves * LSDJ_DEFAULT_WAVE_LENGTH ]
     ELSE IF instruments > 0
     THEN [ event |-> << SPECIAL_ACTION_BYTE, LSDJ_DEFAULT_INSTRUMENT_BYTE, instruments >>,
            read  |-> read + instruments * LSDJ_DEFAULT_INSTRUMENT_LENGTH ]
     ELSE IF c = RUN_LENGTH_ENCODING_BYTE
     THEN [ event |-> << RUN_LENGTH_ENCODING_BYTE, RUN_LENGTH_ENCODING_BYTE >>,
            read  |-> read + 1 ]
     ELSE IF c = SPECIAL_ACTION_BYTE
     THEN [ event |-> << SPECIAL_ACTION_BYTE, SPECIAL_ACTION_BYTE >>,
            read  |-> read + 1 ]
     ELSE IF /\ read + 3 < end
             /\ data[read + 2] = c
             /\ data[read + 3] = c
             /\ data[read + 4] = c
     THEN LET count == CountRun(data, read, end, c, 0)
          IN [ event |-> << RUN_LENGTH_ENCODING_BYTE, c, count >>,
               read  |-> read + count ]
     ELSE [ event |-> << c >>, read |-> read + 1 ]

\* the geometry lsdj_compress is built with: the scaled one, and the one of
\* the build (LSDJ_SONG_BYTE_COUNT 0x8000, LSDJ_BLOCK_SIZE 0x200,
\* LSDJ_BLOCK_COUNT 191)
BuildSongByteCount == 32768
BuildBlockSize == 512
BuildBlockCount == 191
ScaledGeometry ==
  [ end |-> LSDJ_SONG_BYTE_COUNT, blockSize |-> LSDJ_BLOCK_SIZE,
    blockCount |-> LSDJ_BLOCK_COUNT ]
BuildGeometry ==
  [ end |-> BuildSongByteCount, blockSize |-> BuildBlockSize,
    blockCount |-> BuildBlockCount ]

\* the state of one lsdj_compress call right after its prologue
\*   pc: "guard" (refused by the blockOffset test), "loop", "ok",
\*       "capacity" (rolled back), "io" (a stream call failed)
\*   end, blockSize, blockCount: the geometry of the call
\*   at, event: the offset the latest event was built at, and the event
\*   closed: for every block closed its jump marker, the position the marker
\*           was written at and the position behind its padding
\*   endAt: the position the end of stream marker was written at
CompressStartIn(geometry, data, wbuf, wpos, blockOffset) ==
  [ data |-> data,
    read |-> 0,
    end |-> geometry.end,
    blockSize |-> geometry.blockSize,
    blockCount |-> geometry.blockCount,
    w |-> VioNew(wbuf, wpos),
    writeStart |-> wpos,
    blockOffset |-> blockOffset,
    currentBlock |-> blockOffset,
    currentBlockSize |-> 0,
    closed |-> << >>,
    at |-> 0,
    event |-> << >>,
    endAt |-> wpos,
    pc |-> IF blockOffset = geometry.blockCount + 1 THEN "guard" ELSE "loop" ]

CompressStart(data, wbuf, wpos, blockOffset) ==
  CompressStartIn(ScaledGeometry, data, wbuf, wpos, blockOffset)

\* a block closed by its jump marker alone, without padding
BlockClose_NoPadding(blockSize, currentBlock, currentBlockSize) ==
  << SPECIAL_ACTION_BYTE, (currentBlock + 1) % 256 >>

\* the bytes that close the current block: the jump marker and the padding
BlockClose(blockSize, currentBlock, currentBlockSize) ==
  << SPECIAL_ACTION_BYTE, (currentBlock + 1) % 256 >>
    \o Repeat(<< 0 >>, Max(blockSize - (currentBlockSize + 2), 0))

\* a roll back that zeroes what was written and leaves the position behind it
RollBack_NoSeek(w, writeStart) ==
  VioWrite(VioSeek(w, writeStart), Repeat(<< 0 >>, w.pos - writeStart))

\* a roll back that zeroes the stream from its first byte on
RollBack_FromFirstByte(w, writeStart) ==
  LET pos == w.pos
      zeroed == VioWrite(VioSeek(w, 0), Repeat(<< 0 >>, pos))
  IN VioSeek(zeroed, writeStart)

\* the roll back of lines 530-553: seek to writeStart, zero what was
\* written, seek to writeStart again
RollBack(w, writeStart) ==
  LET pos == w.pos
      zeroed == VioWrite(VioSeek(w, writeStart), Repeat(<< 0 >>, pos - writeStart))
  IN VioSeek(zeroed, writeStart)

\* one iteration of the "for (read = data; read < end; )" loop
CompressIteration(c) ==
  LET ne == NextEvent(c.data, c.read, c.end)
      eventSize == Len(ne.event)
      moves == c.currentBlockSize + eventSize + 2 >= c.blockSize
      wClosed == VioWrite(c.w, BlockClose(c.blockSize, c.currentBlock, c.currentBlockSize))
      block == IF moves THEN c.currentBlock + 1 ELSE c.currentBlock
      size == IF moves THEN 0 ELSE c.currentBlockSize
      closed == IF moves
                THEN Append(c.closed, [ marker |-> (c.currentBlock + 1) % 256,
                                        at |-> c.w.pos,
                                        next |-> wClosed.pos ])
                ELSE c.closed
      wBefore == IF moves THEN wClosed ELSE c.w
      wEvent == VioWrite(wBefore, ne.event)
  IN IF moves /\ ~wClosed.ok
     THEN [ c EXCEPT !.read = ne.read, !.at = c.read, !.event = ne.event,
                     !.w = wClosed, !.pc = "io" ]
     ELSE IF moves /\ block = c.blockCount + 1
     THEN [ c EXCEPT !.read = ne.read, !.at = c.read, !.event = ne.event,
                     !.w = RollBack(wClosed, c.writeStart),
                     !.currentBlock = block, !.currentBlockSize = 0,
                     !.closed = closed, !.pc = "capacity" ]
     ELSE [ c EXCEPT !.read = ne.read, !.at = c.read, !.event = ne.event,
                     !.w = wEvent,
                     !.currentBlock = block,
                     !.currentBlockSize = size + eventSize,
                     !.closed = closed,
                     !.pc = IF wEvent.ok THEN "loop" ELSE "io" ]

\* lines 569-597: the end-of-stream marker and the padding of the last block
CompressFinish(c) ==
  LET padding == IF c.currentBlockSize > 0
                 THEN Repeat(<< 0 >>, Max(c.blockSize - (c.currentBlockSize + 2), 0))
                 ELSE << >>
      wEnd == VioWrite(c.w, << SPECIAL_ACTION_BYTE, LSDJ_END_OF_FILE_BLOCK_INDEX >> \o padding)
  IN [ c EXCEPT !.w = wEnd,
                !.endAt = c.w.pos,
                !.currentBlockSize = IF c.currentBlockSize > 0
                                     THEN Max(c.blockSize, c.currentBlockSize + 2)
                                     ELSE 0,
                !.pc = IF wEnd.ok THEN "ok" ELSE "io" ]

\* one step of a running lsdj_compress
CompressStep(c) ==
  IF c.read < c.end THEN CompressIteration(c) ELSE CompressFinish(c)

\* lsdj_compress run to its return
RECURSIVE lsdj_compress(_)
lsdj_compress(c) == IF c.pc = "loop" THEN lsdj_compress(CompressStep(c)) ELSE c

\* ------------------------------------------------------------------------
\* lsdj_decompress
\* ------------------------------------------------------------------------

\* the state of one lsdj_decompress call right after its prologue
\*   r, rpos: the read stream; out: the bytes written since writeStart;
\*   pc: "run", "ok", "size" (size mismatch), "io" (a stream call failed)
\*   consumed, emitted: the input and output bytes of the latest step
\*   entered: the positions decoding of a block began at; left: the block
\*   index values that ended a block
\*   enteredOut: the number of bytes written when a block was entered
\*   leftAt: the read position behind the marker that ended a block
\*   readTotal: the bytes read from the input stream so far
DecompressStart(rbuf, rpos, outCap, firstBlockPosition, followBlockJumps) ==
  [ rbuf |-> rbuf,
    rpos |-> rpos,
    readStart |-> rpos,
    out |-> << >>,
    outCap |-> outCap,
    firstBlockPosition |-> firstBlockPosition,
    followBlockJumps |-> followBlockJumps,
    start |-> rpos,
    nextBlockIndex |-> LSDJ_NO_NEXT_BLOCK_INDEX,
    readCounter |-> 0,
    writeCounter |-> 0,
    consumed |-> << >>,
    emitted |-> << >>,
    entered |-> << rpos >>,
    left |-> << >>,
    enteredOut |-> << 0 >>,
    leftAt |-> << >>,
    readTotal |-> 0,
    steps |-> 0,
    pc |-> "run" ]

\* can lsdj_vio_read_byte deliver the byte at offset k after the position
CanRead(d, k) == d.rpos + k < Len(d.rbuf)
ByteAt(d, k) == d.rbuf[d.rpos + k + 1]

\* the outcome of a step that read n bytes, counted counted of them in
\* *readCounter, and wrote bytes; next is the value left in *nextBlockIndex
StepResult(d, n, counted, bytes, next) ==
  LET fits == Min(Len(bytes), Max(d.outCap - Len(d.out), 0))
  IN [ d EXCEPT !.rpos = d.rpos + n,
                !.readCounter = d.readCounter + counted,
                !.readTotal = d.readTotal + n,
                !.out = d.out \o Take(bytes, fits),
                !.writeCounter = d.writeCounter + fits,
                !.consumed = SubSeq(d.rbuf, d.rpos + 1, d.rpos + n),
                !.emitted = Take(bytes, fits),
                !.nextBlockIndex = next,
                !.steps = d.steps + 1,
                !.pc = IF fits = Len(bytes) THEN "run" ELSE "io" ]

\* a step whose read of the byte at offset n failed
StepReadFailed(d, n, counted) ==
  [ StepResult(d, n, counted, << >>, LSDJ_NO_NEXT_BLOCK_INDEX) EXCEPT !.pc = "io" ]

\* a run decoder that emits one byte too many
decompress_rle_byte_OneMore(d) ==
  IF ~CanRead(d, 1) THEN StepReadFailed(d, 1, 1)
  ELSE IF ByteAt(d, 1) = RUN_LENGTH_ENCODING_BYTE
  THEN StepResult(d, 2, 2, << RUN_LENGTH_ENCODING_BYTE >>, LSDJ_NO_NEXT_BLOCK_INDEX)
  ELSE IF ~CanRead(d, 2) THEN StepReadFailed(d, 2, 2)
  ELSE StepResult(d, 3, 3, Repeat(<< ByteAt(d, 1) >>, ByteAt(d, 2) + 1),
                  LSDJ_NO_NEXT_BLOCK_INDEX)

\* decompress_rle_byte, the marker byte being read already
decompress_rle_byte(d) ==
  IF ~CanRead(d, 1) THEN StepReadFailed(d, 1, 1)
  ELSE IF ByteAt(d, 1) = RUN_LENGTH_ENCODING_BYTE
  THEN StepResult(d, 2, 2, << RUN_LENGTH_ENCODING_BYTE >>, LSDJ_NO_NEXT_BLOCK_INDEX)
  ELSE IF ~CanRead(d, 2) THEN StepReadFailed(d, 2, 2)
  ELSE StepResult(d, 3, 3, Repeat(<< ByteAt(d, 1) >>, ByteAt(d, 2)),
                  LSDJ_NO_NEXT_BLOCK_INDEX)

\* decompress_default_wave_byte: the count is read with a NULL counter
decompress_default_wave_byte(d) ==
  IF ~CanRead(d, 2) THEN StepReadFailed(d, 2, 2)
  ELSE StepResult(d, 3, 2, Repeat(LSDJ_DEFAULT_WAVE, ByteAt(d, 2)),
                  LSDJ_NO_NEXT_BLOCK_INDEX)

\* decompress_default_instrument_byte: the count is read with a NULL counter
decompress_default_instrument_byte(d) ==
  IF ~CanRead(d, 2) THEN StepReadFailed(d, 2, 2)
  ELSE StepResult(d, 3, 2, Repeat(LSDJ_DEFAULT_INSTRUMENT, ByteAt(d, 2)),
                  LSDJ_NO_NEXT_BLOCK_INDEX)

\* decompress_sa_byte, the marker byte being read already
decompress_sa_byte(d) ==
  IF ~CanRead(d, 1) THEN StepReadFailed(d, 1, 1)
  ELSE IF ByteAt(d, 1) = SPECIAL_ACTION_BYTE
  THEN StepResult(d, 2, 2, << SPECIAL_ACTION_BYTE >>, LSDJ_NO_NEXT_BLOCK_INDEX)
  ELSE IF ByteAt(d, 1) = LSDJ_DEFAULT_WAVE_BYTE
  THEN decompress_default_wave_byte(d)
  ELSE IF ByteAt(d, 1) = LSDJ_DEFAULT_INSTRUMENT_BYTE
  THEN decompress_default_instrument_byte(d)
  ELSE StepResult(d, 2, 2, << >>, ByteAt(d, 1))

\* lsdj_decompress_step
lsdj_decompress_step(d) ==
  IF ~CanRead(d, 0) THEN StepReadFailed(d, 0, 0)
  ELSE IF ByteAt(d, 0) = RUN_LENGTH_ENCODING_BYTE THEN decompress_rle_byte(d)
  ELSE IF ByteAt(d, 0) = SPECIAL_ACTION_BYTE THEN decompress_sa_byte(d)
  ELSE StepResult(d, 1, 1, << ByteAt(d, 0) >>, LSDJ_NO_NEXT_BLOCK_INDEX)

\* the seek target of a followed block jump (lines 258-259)
JumpTarget(firstBlockPosition, nextBlockIndex) ==
  LET index == ((nextBlockIndex % 256) + 255) % 256
  IN firstBlockPosition + index * LSDJ_BLOCK_SIZE

\* a size check that only refuses short output
SizeCheck_AtLeast(d) == IF Len(d.out) < LSDJ_SONG_BYTE_COUNT THEN "size" ELSE "ok"

\* the size check that ends lsdj_decompress (lines 270-287)
SizeCheck(d) == IF Len(d.out) # LSDJ_SONG_BYTE_COUNT THEN "size" ELSE "ok"

\* a block left where the step that ended it stopped reading, without the
\* seek to the end of the block
LeaveBlock_NoSeek(d) ==
  LET atEnd == d.rpos
      target == IF d.followBlockJumps
                THEN JumpTarget(d.firstBlockPosition, d.nextBlockIndex)
                ELSE atEnd
  IN IF d.nextBlockIndex = LSDJ_END_OF_FILE_BLOCK_INDEX
     THEN [ d EXCEPT !.rpos = atEnd, !.pc = SizeCheck(d),
                     !.left = Append(d.left, d.nextBlockIndex),
                     !.leftAt = Append(d.leftAt, d.rpos) ]
     ELSE [ d EXCEPT !.rpos = target, !.start = target,
                     !.entered = Append(d.entered, target),
                     !.enteredOut = Append(d.enteredOut, Len(d.out)),
                     !.left = Append(d.left, d.nextBlockIndex),
                     !.leftAt = Append(d.leftAt, d.rpos) ]

\* what lsdj_decompress_block and lsdj_decompress do once a step has left a
\* block index: seek to the end of the block, then follow the jump or finish
LeaveBlock(d) ==
  LET atEnd == d.start + LSDJ_BLOCK_SIZE
      target == IF d.followBlockJumps
                THEN JumpTarget(d.firstBlockPosition, d.nextBlockIndex)
                ELSE atEnd
  IN IF d.nextBlockIndex = LSDJ_END_OF_FILE_BLOCK_INDEX
     THEN [ d EXCEPT !.rpos = atEnd, !.pc = SizeCheck(d),
                     !.left = Append(d.left, d.nextBlockIndex),
                     !.leftAt = Append(d.leftAt, d.rpos) ]
     ELSE [ d EXCEPT !.rpos = target, !.start = target,
                     !.entered = Append(d.entered, target),
                     !.enteredOut = Append(d.enteredOut, Len(d.out)),
                     !.left = Append(d.left, d.nextBlockIndex),
                     !.leftAt = Append(d.leftAt, d.rpos) ]

\* one lsdj_decompress_step of a running lsdj_decompress, with the block and
\* jump handling that follows it
DecompressAdvance(d) ==
  LET s == lsdj_decompress_step(d)
  IN IF s.pc = "run" /\ s.nextBlockIndex # LSDJ_NO_NEXT_BLOCK_INDEX
     THEN LeaveBlock(s)
     ELSE s

\* ------------------------------------------------------------------------
\* The song image (song.c): entity counts and lengths of the build
\* ------------------------------------------------------------------------

SONG_DECOMPRESSED_SIZE == 32768
ROW_COUNT == 256
ROW_LENGTH == 4
CHAIN_COUNT == 128
CHAIN_LENGTH == 16
PHRASE_COUNT == 255
PHRASE_LENGTH == 16
INSTRUMENT_COUNT == 64
INSTRUMENT_NAME_LENGTH == 5
INSTRUMENT_LENGTH == 16
SYNTH_COUNT == 16
SYNTH_PARAMETER_COUNT == 13
SYNTH_RESERVED_LENGTH == 3
WAVE_COUNT == 256
WAVE_LENGTH == 16
TABLE_COUNT == 32
TABLE_LENGTH == 16
GROOVE_COUNT == 32
GROOVE_LENGTH == 16
WORD_COUNT == 42
WORD_LENGTH == 16
WORD_NAME_LENGTH == 4
BOOKMARK_COUNT == 64
INSTR_ALLOC_TABLE_SIZE == 64
TABLE_ALLOC_TABLE_SIZE == 32
CHAIN_ALLOC_TABLE_SIZE == 16
PHRASE_ALLOC_TABLE_SIZE == 32
RESERVED1030_LENGTH == 96
RESERVED1FBA_LENGTH == 70
RESERVED2000_LENGTH == 32
RESERVED3FC6_LENGTH == 58
RESERVED5FE0_LENGTH == 32
RESERVED7FF2_LENGTH == 13

\* the default instrument written for an absent instrument (song.c:481)
DEFAULT_INSTRUMENT == LSDJ_DEFAULT_INSTRUMENT

\* "rb"
RB == << 114, 98 >>

Fill(n, byte) == [ k \in 1..n |-> byte ]
TABLE_LENGTH_ZERO == Fill(TABLE_LENGTH, 0)
CHAIN_LENGTH_ZERO == Fill(TABLE_LENGTH, 0)
CHAIN_LENGTH_FF_Zero == Fill(TABLE_LENGTH, 0)
CHAIN_LENGTH_FF == Fill(TABLE_LENGTH, 255)
PHRASE_LENGTH_ZERO == Fill(PHRASE_LENGTH, 0)
PHRASE_LENGTH_FF == Fill(PHRASE_LENGTH, 255)
EMPTY_INSTRUMENT_NAME == Fill(INSTRUMENT_NAME_LENGTH, 0)

\* a NULL entity pointer
Absent == [ present |-> FALSE ]

\* n byte strings of one width, item(0) .. item(n - 1), written in turn
Each(n, width, item(_)) ==
  [ k \in 1..(n * width) |-> item((k - 1) \div width)[((k - 1) % width) + 1] ]

\* vio->read of n bytes at offset off of the image
Bytes(image, off, n) == [ k \in 1..n |-> image[off + k] ]

\* bit i of a packed allocation table
Bit(table, i) == (table[(i \div 8) + 1] \div (2 ^ (i % 8))) % 2

\* a packed allocation table of size bytes with the bits of the set on
Packed(size, on) ==
  [ k \in 1..size |->
      LET bit(b) == IF ((k - 1) * 8 + b) \in on THEN 2 ^ b ELSE 0
      IN bit(0) + bit(1) + bit(2) + bit(3) + bit(4) + bit(5) + bit(6) + bit(7) ]

\* alloc_song: calloc, every byte zero and every entity pointer NULL
alloc_song ==
  [ formatVersion |-> 0, tempo |-> 0, transposition |-> 0,
    rows |-> Fill(ROW_COUNT * ROW_LENGTH, 0),
    chains |-> [ i \in 0..(CHAIN_COUNT - 1) |-> Absent ],
    phrases |-> [ i \in 0..(PHRASE_COUNT - 1) |-> Absent ],
    instruments |-> [ i \in 0..(INSTRUMENT_COUNT - 1) |-> Absent ],
    synths |-> [ i \in 0..(SYNTH_COUNT - 1) |->
                 [ parameters |-> Fill(SYNTH_PARAMETER_COUNT, 0),
                   reserved |-> Fill(SYNTH_RESERVED_LENGTH, 0),
                   overwritten |-> 0 ] ],
    waves |-> Fill(WAVE_COUNT * WAVE_LENGTH, 0),
    tables |-> [ i \in 0..(TABLE_COUNT - 1) |-> Absent ],
    grooves |-> Fill(GROOVE_COUNT * GROOVE_LENGTH, 0),
    words |-> [ i \in 0..(WORD_COUNT - 1) |->
                [ allophones |-> Fill(WORD_LENGTH, 0), lengths |-> Fill(WORD_LENGTH, 0) ] ],
    wordNames |-> Fill(WORD_COUNT * WORD_NAME_LENGTH, 0),
    bookmarks |-> Fill(BOOKMARK_COUNT, 0),
    meta |-> [ keyDelay |-> 0, keyRepeat |-> 0, font |-> 0, sync |-> 0,
               colorSet |-> 0, clone |-> 0, fileChangedFlag |-> 0,
               powerSave |-> 0, preListen |-> 0,
               totalTime |-> Fill(3, 0), workTime |-> Fill(2, 0) ],
    reserved1030 |-> Fill(RESERVED1030_LENGTH, 0),
    reserved1fba |-> Fill(RESERVED1FBA_LENGTH, 0),
    reserved2000 |-> Fill(RESERVED2000_LENGTH, 0),
    reserved3fbf |-> 0,
    reserved3fb9 |-> 0,
    reserved3fc6 |-> Fill(RESERVED3FC6_LENGTH, 0),
    reserved5fe0 |-> Fill(RESERVED5FE0_LENGTH, 0),
    reserved7ff2 |-> Fill(RESERVED7FF2_LENGTH, 0) ]

\* the entities malloc gives lsdj_read_song: present, no field set yet
NewChain == [ present |-> TRUE, phrases |-> << >>, transpositions |-> << >> ]
NewPhrase == [ present |-> TRUE, notes |-> << >>, instruments |-> << >>,
               commands |-> << >>, values |-> << >> ]
NewInstrument == [ present |-> TRUE, name |-> << >>, payload |-> << >> ]
NewTable == [ present |-> TRUE, volumes |-> << >>, transpositions |-> << >>,
              commands1 |-> << >>, values1 |-> << >>,
              commands2 |-> << >>, values2 |-> << >> ]

\* the entities that are present, each changed by read(entity, index)
ReadPresent(entities, read(_, _)) ==
  [ i \in DOMAIN entities |->
      IF entities[i].present THEN read(entities[i], i) ELSE entities[i] ]

\* read_bank0: the song after the reads and the stream position reached
read_bank0(image, pos, song) ==
  LET pNotes == pos
      pBookmarks == pNotes + PHRASE_COUNT * PHRASE_LENGTH
      pReserved1030 == pBookmarks + BOOKMARK_COUNT
      pGrooves == pReserved1030 + RESERVED1030_LENGTH
      pRows == pGrooves + GROOVE_COUNT * GROOVE_LENGTH
      pVolumes == pRows + ROW_COUNT * ROW_LENGTH
      pWords == pVolumes + TABLE_COUNT * TABLE_LENGTH
      pWordNames == pWords + WORD_COUNT * 2 * WORD_LENGTH
      pRb == pWordNames + WORD_COUNT * WORD_NAME_LENGTH
      pNames == pRb + 2
      pReserved1fba == pNames + INSTRUMENT_COUNT * INSTRUMENT_NAME_LENGTH
  IN [ pos |-> pReserved1fba + RESERVED1FBA_LENGTH,
       song |->
         [ song EXCEPT
             !.phrases = ReadPresent(song.phrases, LAMBDA e, i :
                 [ e EXCEPT !.notes = Bytes(image, pNotes + i * PHRASE_LENGTH, PHRASE_LENGTH) ]),
             !.bookmarks = Bytes(image, pBookmarks, BOOKMARK_COUNT),
             !.reserved1030 = Bytes(image, pReserved1030, RESERVED1030_LENGTH),
             !.grooves = Bytes(image, pGrooves, GROOVE_COUNT * GROOVE_LENGTH),
             !.rows = Bytes(image, pRows, ROW_COUNT * ROW_LENGTH),
             !.tables = ReadPresent(song.tables, LAMBDA e, i :
                 [ e EXCEPT !.volumes = Bytes(image, pVolumes + i * TABLE_LENGTH, TABLE_LENGTH) ]),
             !.words = [ i \in 0..(WORD_COUNT - 1) |->
                 [ allophones |-> Bytes(image, pWords + i * 2 * WORD_LENGTH, WORD_LENGTH),
                   lengths |-> Bytes(image, pWords + i * 2 * WORD_LENGTH + WORD_LENGTH, WORD_LENGTH) ] ],
             !.wordNames = Bytes(image, pWordNames, WORD_COUNT * WORD_NAME_LENGTH),
             !.instruments = ReadPresent(song.instruments, LAMBDA e, i :
                 [ e EXCEPT !.name = Bytes(image, pNames + i * INSTRUMENT_NAME_LENGTH,
                                           INSTRUMENT_NAME_LENGTH) ]),
             !.reserved1fba = Bytes(image, pReserved1fba, RESERVED1FBA_LENGTH) ] ]

\* write_bank0: the bytes written
write_bank0(song) ==
  Each(PHRASE_COUNT, PHRASE_LENGTH, LAMBDA i :
         IF song.phrases[i].present THEN song.phrases[i].notes ELSE PHRASE_LENGTH_ZERO)
    \o song.bookmarks
    \o song.reserved1030
    \o song.grooves
    \o song.rows
    \o Each(TABLE_COUNT, TABLE_LENGTH, LAMBDA i :
         IF song.tables[i].present THEN song.tables[i].volumes ELSE TABLE_LENGTH_ZERO)
    \o Each(WORD_COUNT, 2 * WORD_LENGTH, LAMBDA i :
         song.words[i].allophones \o song.words[i].lengths)
    \o song.wordNames
    \o RB
    \o Each(INSTRUMENT_COUNT, INSTRUMENT_NAME_LENGTH, LAMBDA i :
         IF song.instruments[i].present THEN song.instruments[i].name
                                        ELSE EMPTY_INSTRUMENT_NAME)
    \o song.reserved1fba

\* a reader that takes the parameters and leaves the reserved bytes zero
read_soft_synth_parameters_NoReserved(image, pos) ==
  [ parameters |-> Bytes(image, pos, SYNTH_PARAMETER_COUNT),
    reserved |-> Fill(SYNTH_RESERVED_LENGTH, 0) ]

\* read_soft_synth_parameters
read_soft_synth_parameters(image, pos) ==
  [ parameters |-> Bytes(image, pos, SYNTH_PARAMETER_COUNT),
    reserved |-> Bytes(image, pos + SYNTH_PARAMETER_COUNT, SYNTH_RESERVED_LENGTH) ]

\* write_soft_synth_parameters
write_soft_synth_parameters(synth) == synth.parameters \o synth.reserved

\* lsdj_read_instrument: the 16 bytes of the payload of an instrument
lsdj_read_instrument(image, pos, instrument) ==
  [ instrument EXCEPT !.payload = Bytes(image, pos, INSTRUMENT_LENGTH) ]

\* lsdj_write_instrument
lsdj_write_instrument(instrument) == instrument.payload

\* the flag of synth i in the two lock bytes read at 0x3FC4 (song.c:404)
OverwriteLock(locks, i) == (locks[(1 - (i \div 8)) + 1] \div (2 ^ (i % 8))) % 2

\* read_bank1
read_bank1(image, pos, song) ==
  LET pReserved2000 == pos
      pChainPhrases == pReserved2000 + RESERVED2000_LENGTH
                         + TABLE_ALLOC_TABLE_SIZE + INSTR_ALLOC_TABLE_SIZE
      pChainTranspositions == pChainPhrases + CHAIN_COUNT * CHAIN_LENGTH
      pInstruments == pChainTranspositions + CHAIN_COUNT * CHAIN_LENGTH
      pTranspositions == pInstruments + INSTRUMENT_COUNT * 16
      pCommands1 == pTranspositions + TABLE_COUNT * TABLE_LENGTH
      pValues1 == pCommands1 + TABLE_COUNT * TABLE_LENGTH
      pCommands2 == pValues1 + TABLE_COUNT * TABLE_LENGTH
      pValues2 == pCommands2 + TABLE_COUNT * TABLE_LENGTH
      pRb == pValues2 + TABLE_COUNT * TABLE_LENGTH
      pSynths == pRb + 2 + PHRASE_ALLOC_TABLE_SIZE + CHAIN_ALLOC_TABLE_SIZE
      pMeta == pSynths + SYNTH_COUNT * (SYNTH_PARAMETER_COUNT + SYNTH_RESERVED_LENGTH)
      locks == Bytes(image, pMeta + 18, 2)
  IN [ pos |-> pMeta + 20 + RESERVED3FC6_LENGTH,
       song |->
         [ song EXCEPT
             !.reserved2000 = Bytes(image, pReserved2000, RESERVED2000_LENGTH),
             !.chains = ReadPresent(song.chains, LAMBDA e, i :
                 [ e EXCEPT
                     !.phrases = Bytes(image, pChainPhrases + i * CHAIN_LENGTH, CHAIN_LENGTH),
                     !.transpositions =
                        Bytes(image, pChainTranspositions + i * CHAIN_LENGTH, CHAIN_LENGTH) ]),
             !.instruments = ReadPresent(song.instruments, LAMBDA e, i :
                 lsdj_read_instrument(image, pInstruments + i * 16, e)),
             !.tables = ReadPresent(song.tables, LAMBDA e, i :
                 [ e EXCEPT
                     !.transpositions =
                        Bytes(image, pTranspositions + i * TABLE_LENGTH, TABLE_LENGTH),
                     !.commands1 = Bytes(image, pCommands1 + i * TABLE_LENGTH, TABLE_LENGTH),
                     !.values1 = Bytes(image, pValues1 + i * TABLE_LENGTH, TABLE_LENGTH),
                     !.commands2 = Bytes(image, pCommands2 + i * TABLE_LENGTH, TABLE_LENGTH),
                     !.values2 = Bytes(image, pValues2 + i * TABLE_LENGTH, TABLE_LENGTH) ]),
             !.synths = [ i \in 0..(SYNTH_COUNT - 1) |->
                 [ parameters |-> read_soft_synth_parameters(image,
                       pSynths + i * (SYNTH_PARAMETER_COUNT + SYNTH_RESERVED_LENGTH)).parameters,
                   reserved |-> read_soft_synth_parameters(image,
                       pSynths + i * (SYNTH_PARAMETER_COUNT + SYNTH_RESERVED_LENGTH)).reserved,
                   overwritten |-> OverwriteLock(locks, i) ] ],
             !.meta = [ workTime |-> Bytes(image, pMeta, 2),
                        totalTime |-> Bytes(image, pMeta + 4, 3),
                        keyDelay |-> image[pMeta + 9],
                        keyRepeat |-> image[pMeta + 10],
                        font |-> image[pMeta + 11],
                        sync |-> image[pMeta + 12],
                        colorSet |-> image[pMeta + 13],
                        clone |-> image[pMeta + 15],
                        fileChangedFlag |-> image[pMeta + 16],
                        powerSave |-> image[pMeta + 17],
                        preListen |-> image[pMeta + 18] ],
             !.tempo = image[pMeta + 3],
             !.transposition = image[pMeta + 4],
             !.reserved3fb9 = image[pMeta + 8],
             !.reserved3fbf = image[pMeta + 14],
             !.reserved3fc6 = Bytes(image, pMeta + 20, RESERVED3FC6_LENGTH) ] ]

\* the lock bytes with the flags of synths 0..7 in the first byte, which is
\* not the order read_bank1 reads them in
OverwriteLocks_FirstByteFirst(song) ==
  [ k \in 1..2 |->
      LET bit(b) == IF song.synths[(k - 1) * 8 + b].overwritten # 0 THEN 2 ^ b ELSE 0
      IN bit(0) + bit(1) + bit(2) + bit(3) + bit(4) + bit(5) + bit(6) + bit(7) ]

\* the two lock bytes write_bank1 builds from the overwritten flags
OverwriteLocks(song) ==
  [ k \in 1..2 |->
      LET bit(b) == IF song.synths[(1 - (k - 1)) * 8 + b].overwritten # 0 THEN 2 ^ b ELSE 0
      IN bit(0) + bit(1) + bit(2) + bit(3) + bit(4) + bit(5) + bit(6) + bit(7) ]

\* the indices of the entities that are present
Allocated(entities) == { i \in DOMAIN entities : entities[i].present }

\* write_bank1
write_bank1(song) ==
  song.reserved2000
    \o [ k \in 1..TABLE_ALLOC_TABLE_SIZE |-> IF song.tables[k - 1].present THEN 1 ELSE 0 ]
    \o [ k \in 1..INSTR_ALLOC_TABLE_SIZE |-> IF song.instruments[k - 1].present THEN 1 ELSE 0 ]
    \o Each(CHAIN_COUNT, CHAIN_LENGTH, LAMBDA i :
         IF song.chains[i].present THEN song.chains[i].phrases ELSE CHAIN_LENGTH_FF)
    \o Each(CHAIN_COUNT, CHAIN_LENGTH, LAMBDA i :
         IF song.chains[i].present THEN song.chains[i].transpositions ELSE CHAIN_LENGTH_ZERO)
    \o Each(INSTRUMENT_COUNT, INSTRUMENT_LENGTH, LAMBDA i :
         IF song.instruments[i].present THEN lsdj_write_instrument(song.instruments[i])
                                        ELSE DEFAULT_INSTRUMENT)
    \o Each(TABLE_COUNT, TABLE_LENGTH, LAMBDA i :
         IF song.tables[i].present THEN song.tables[i].transpositions ELSE TABLE_LENGTH_ZERO)
    \o Each(TABLE_COUNT, TABLE_LENGTH, LAMBDA i :
         IF song.tables[i].present THEN song.tables[i].commands1 ELSE TABLE_LENGTH_ZERO)
    \o Each(TABLE_COUNT, TABLE_LENGTH, LAMBDA i :
         IF song.tables[i].present THEN song.tables[i].values1 ELSE TABLE_LENGTH_ZERO)
    \o Each(TABLE_COUNT, TABLE_LENGTH, LAMBDA i :
         IF song.tables[i].present THEN song.tables[i].commands2 ELSE TABLE_LENGTH_ZERO)
    \o Each(TABLE_COUNT, TABLE_LENGTH, LAMBDA i :
         IF song.tables[i].present THEN song.tables[i].values2 ELSE TABLE_LENGTH_ZERO)
    \o RB
    \o Packed(PHRASE_ALLOC_TABLE_SIZE, Allocated(song.phrases))
    \o Packed(CHAIN_ALLOC_TABLE_SIZE, Allocated(song.chains))
    \o Each(SYNTH_COUNT, SYNTH_PARAMETER_COUNT + SYNTH_RESERVED_LENGTH, LAMBDA i :
         write_soft_synth_parameters(song.synths[i]))
    \o song.meta.workTime
    \o << song.tempo, song.transposition >>
    \o song.meta.totalTime
    \o << song.reserved3fb9, song.meta.keyDelay, song.meta.keyRepeat, song.meta.font,
          song.meta.sync, song.meta.colorSet, song.reserved3fbf, song.meta.clone,
          song.meta.fileChangedFlag, song.meta.powerSave, song.meta.preListen >>
    \o OverwriteLocks(song)
    \o song.reserved3fc6

\* read_bank2
read_bank2(image, pos, song) ==
  LET pCommands == pos
      pValues == pCommands + PHRASE_COUNT * PHRASE_LENGTH
      pReserved5fe0 == pValues + PHRASE_COUNT * PHRASE_LENGTH
  IN [ pos |-> pReserved5fe0 + RESERVED5FE0_LENGTH,
       song |->
         [ song EXCEPT
             !.phrases = ReadPresent(song.phrases, LAMBDA e, i :
                 [ e EXCEPT
                     !.commands = Bytes(image, pCommands + i * PHRASE_LENGTH, PHRASE_LENGTH),
                     !.values = Bytes(image, pValues + i * PHRASE_LENGTH, PHRASE_LENGTH) ]),
             !.reserved5fe0 = Bytes(image, pReserved5fe0, RESERVED5FE0_LENGTH) ] ]

\* write_bank2
write_bank2(song) ==
  Each(PHRASE_COUNT, PHRASE_LENGTH, LAMBDA i :
         IF song.phrases[i].present THEN song.phrases[i].commands ELSE PHRASE_LENGTH_ZERO)
    \o Each(PHRASE_COUNT, PHRASE_LENGTH, LAMBDA i :
         IF song.phrases[i].present THEN song.phrases[i].values ELSE PHRASE_LENGTH_ZERO)
    \o song.reserved5fe0

\* read_bank3
read_bank3(image, pos, song) ==
  LET pWaves == pos
      pInstruments == pWaves + WAVE_COUNT * WAVE_LENGTH
      pRb == pInstruments + PHRASE_COUNT * PHRASE_LENGTH
      pReserved7ff2 == pRb + 2
  IN [ pos |-> pReserved7ff2 + RESERVED7FF2_LENGTH + 1,
       song |->
         [ song EXCEPT
             !.waves = Bytes(image, pWaves, WAVE_COUNT * WAVE_LENGTH),
             !.phrases = ReadPresent(song.phrases, LAMBDA e, i :
                 [ e EXCEPT !.instruments =
                     Bytes(image, pInstruments + i * PHRASE_LENGTH, PHRASE_LENGTH) ]),
             !.reserved7ff2 = Bytes(image, pReserved7ff2, RESERVED7FF2_LENGTH) ] ]

\* a bank 3 with the version number in front of the "rb" flag
write_bank3_VersionFirst(song) ==
  song.waves
    \o Each(PHRASE_COUNT, PHRASE_LENGTH, LAMBDA i :
         IF song.phrases[i].present THEN song.phrases[i].instruments ELSE PHRASE_LENGTH_FF)
    \o << song.formatVersion >>
    \o RB
    \o song.reserved7ff2

\* write_bank3
write_bank3(song) ==
  song.waves
    \o Each(PHRASE_COUNT, PHRASE_LENGTH, LAMBDA i :
         IF song.phrases[i].present THEN song.phrases[i].instruments ELSE PHRASE_LENGTH_FF)
    \o RB
    \o song.reserved7ff2
    \o << song.formatVersion >>

\* a check that looks at the first of the two bytes only
check_rb_FirstByte(image, position) == IF image[position + 1] = RB[1] THEN 0 ELSE 1

\* check_rb: 0 when the two bytes at the position are "rb"
check_rb(image, position) == IF Bytes(image, position, 2) = RB THEN 0 ELSE 1

\* the song lsdj_read_song has allocated: the version and the entities the
\* four allocation tables name (lines 707-751)
AllocatedSong(image, begin) ==
  LET tableAllocTable == Bytes(image, begin + 8224, TABLE_ALLOC_TABLE_SIZE)
      instrAllocTable == Bytes(image, begin + 8224 + TABLE_ALLOC_TABLE_SIZE,
                               INSTR_ALLOC_TABLE_SIZE)
      phraseAllocTable == Bytes(image, begin + 16002, PHRASE_ALLOC_TABLE_SIZE)
      chainAllocTable == Bytes(image, begin + 16002 + PHRASE_ALLOC_TABLE_SIZE,
                               CHAIN_ALLOC_TABLE_SIZE)
  IN [ alloc_song EXCEPT
         !.formatVersion = image[begin + 32767 + 1],
         !.tables = [ i \in 0..(TABLE_COUNT - 1) |->
                        IF i < TABLE_ALLOC_TABLE_SIZE /\ tableAllocTable[i + 1] # 0
                        THEN NewTable ELSE Absent ],
         !.instruments = [ i \in 0..(INSTRUMENT_COUNT - 1) |->
                             IF instrAllocTable[i + 1] # 0 THEN NewInstrument ELSE Absent ],
         !.chains = [ i \in 0..(CHAIN_COUNT - 1) |->
                        IF Bit(chainAllocTable, i) = 1 THEN NewChain ELSE Absent ],
         !.phrases = [ i \in 0..(PHRASE_COUNT - 1) |->
                         IF Bit(phraseAllocTable, i) = 1 THEN NewPhrase ELSE Absent ] ]

\* lsdj_read_song on the image, the stream being at position begin
lsdj_read_song(image, begin) ==
  IF check_rb(image, begin + 7800) # 0
  THEN [ ok |-> FALSE, error |-> "memory flag 'rb' not found at 0x1E78" ]
  ELSE IF check_rb(image, begin + 16000) # 0
  THEN [ ok |-> FALSE, error |-> "memory flag 'rb' not found at 0x3E80" ]
  ELSE IF check_rb(image, begin + 32752) # 0
  THEN [ ok |-> FALSE, error |-> "memory flag 'rb' not found at 0x7FF0" ]
  ELSE LET bank0 == read_bank0(image, begin, AllocatedSong(image, begin))
           bank1 == read_bank1(image, bank0.pos, bank0.song)
           bank2 == read_bank2(image, bank1.pos, bank1.song)
           bank3 == read_bank3(image, bank2.pos, bank2.song)
       IN [ ok |-> TRUE, song |-> bank3.song, pos |-> bank3.pos ]

\* lsdj_write_song: the bytes written
lsdj_write_song(song) ==
  write_bank0(song) \o write_bank1(song) \o write_bank2(song) \o write_bank3(song)

\* ------------------------------------------------------------------------
\* Songs to serialize: every field filled from a seed, the entities at the
\* given indices present
\* ------------------------------------------------------------------------

\* number of seeds the field values are drawn from
MaxSeed == 2

Gen(seed, tag, n) == [ k \in 1..n |-> (seed * 101 + tag * 37 + k * 7) % 256 ]

MakeSong(seed, chains, phrases, instruments, tables) ==
  [ formatVersion |-> 3 + seed, tempo |-> 128 + seed, transposition |-> seed,
    rows |-> Gen(seed, 1, ROW_COUNT * ROW_LENGTH),
    chains |-> [ i \in 0..(CHAIN_COUNT - 1) |->
        IF i \in chains
        THEN [ present |-> TRUE, phrases |-> Gen(seed, 2 + i, CHAIN_LENGTH),
               transpositions |-> Gen(seed, 3 + i, CHAIN_LENGTH) ]
        ELSE Absent ],
    phrases |-> [ i \in 0..(PHRASE_COUNT - 1) |->
        IF i \in phrases
        THEN [ present |-> TRUE, notes |-> Gen(seed, 4 + i, PHRASE_LENGTH),
               instruments |-> Gen(seed, 5 + i, PHRASE_LENGTH),
               commands |-> Gen(seed, 6 + i, PHRASE_LENGTH),
               values |-> Gen(seed, 7 + i, PHRASE_LENGTH) ]
        ELSE Absent ],
    instruments |-> [ i \in 0..(INSTRUMENT_COUNT - 1) |->
        IF i \in instruments
        THEN [ present |-> TRUE, name |-> Gen(seed, 8 + i, INSTRUMENT_NAME_LENGTH),
               payload |-> Gen(seed, 9 + i, INSTRUMENT_LENGTH) ]
        ELSE Absent ],
    synths |-> [ i \in 0..(SYNTH_COUNT - 1) |->
        [ parameters |-> Gen(seed, 10 + i, SYNTH_PARAMETER_COUNT),
          reserved |-> Gen(seed, 11 + i, SYNTH_RESERVED_LENGTH),
          overwritten |-> IF (i + seed) % 3 = 0 THEN 1 ELSE 0 ] ],
    waves |-> Gen(seed, 12, WAVE_COUNT * WAVE_LENGTH),
    tables |-> [ i \in 0..(TABLE_COUNT - 1) |->
        IF i \in tables
        THEN [ present |-> TRUE, volumes |-> Gen(seed, 13 + i, TABLE_LENGTH),
               transpositions |-> Gen(seed, 14 + i, TABLE_LENGTH),
               commands1 |-> Gen(seed, 15 + i, TABLE_LENGTH),
               values1 |-> Gen(seed, 16 + i, TABLE_LENGTH),
               commands2 |-> Gen(seed, 17 + i, TABLE_LENGTH),
               values2 |-> Gen(seed, 18 + i, TABLE_LENGTH) ]
        ELSE Absent ],
    grooves |-> Gen(seed, 19, GROOVE_COUNT * GROOVE_LENGTH),
    words |-> [ i \in 0..(WORD_COUNT - 1) |->
        [ allophones |-> Gen(seed, 20 + i, WORD_LENGTH),
          lengths |-> Gen(seed, 21 + i, WORD_LENGTH) ] ],
    wordNames |-> Gen(seed, 22, WORD_COUNT * WORD_NAME_LENGTH),
    bookmarks |-> Gen(seed, 23, BOOKMARK_COUNT),
    meta |-> [ keyDelay |-> 7 + seed, keyRepeat |-> 2 + seed, font |-> 10 + seed,
               sync |-> 20 + seed, colorSet |-> 30 + seed, clone |-> 40 + seed,
               fileChangedFlag |-> 50 + seed, powerSave |-> 60 + seed,
               preListen |-> 70 + seed,
               totalTime |-> Gen(seed, 24, 3), workTime |-> Gen(seed, 25, 2) ],
    reserved1030 |-> Gen(seed, 26, RESERVED1030_LENGTH),
    reserved1fba |-> Gen(seed, 27, RESERVED1FBA_LENGTH),
    reserved2000 |-> Gen(seed, 28, RESERVED2000_LENGTH),
    reserved3fbf |-> 80 + seed,
    reserved3fb9 |-> 90 + seed,
    reserved3fc6 |-> Gen(seed, 29, RESERVED3FC6_LENGTH),
    reserved5fe0 |-> Gen(seed, 30, RESERVED5FE0_LENGTH),
    reserved7ff2 |-> Gen(seed, 31, RESERVED7FF2_LENGTH) ]

\* the sets of indices entities are present at
ChainSets == { {}, { 0 }, { 9, CHAIN_COUNT - 1 } }
PhraseSets == { {}, { 0, 8 }, { PHRASE_COUNT - 1 } }
InstrumentSets == { {}, { 0 }, { 1, INSTRUMENT_COUNT - 1 } }
TableSets == { {}, { 0, TABLE_COUNT - 1 }, { 5 } }

\* ------------------------------------------------------------------------
\* The save container (sav.c), on the block geometry of the codec above.
\* At this level a song is the bytes of its image, LSDJ_SONG_BYTE_COUNT of
\* them: the images are what the container stores and compresses.
\* ------------------------------------------------------------------------

\* number of project slots of a save
SAV_PROJECT_COUNT == 2

\* "j", "k"
JK == << 106, 107 >>

HEADER_START == LSDJ_SONG_BYTE_COUNT
BLOCK_COUNT == LSDJ_BLOCK_COUNT
BLOCK_SIZE == LSDJ_BLOCK_SIZE

\* header_t: project_names, versions, empty, init, active_project
ProjectNameLength == 8
HeaderEmptyLength == 30
HeaderVersions == SAV_PROJECT_COUNT * ProjectNameLength
HeaderInit == HeaderVersions + SAV_PROJECT_COUNT + HeaderEmptyLength
HeaderActiveProject == HeaderInit + 2
HeaderSize == HeaderActiveProject + 1

\* lsdj_write_song_to_memory of a song of a save
lsdj_write_song_to_memory(s) == s.image

\* lsdj_read_song_from_memory into a song of a save
lsdj_read_song_from_memory(data) == [ present |-> TRUE, image |-> data ]

\* a count of the blocks written that leaves out the last one
WrittenBlockCount_OneLess(call) ==
  IF call.pc = "ok" THEN Max((call.w.pos - call.writeStart) \div LSDJ_BLOCK_SIZE - 1, 0)
                    ELSE 0

\* written_block_count (sav.c:207): the blocks a lsdj_compress call that
\* returned true has written, none when it returned false
WrittenBlockCount(call) ==
  IF call.pc = "ok" THEN (call.w.pos - call.writeStart) \div LSDJ_BLOCK_SIZE ELSE 0

\* the loop of sav.c:194-213 from project i on: the header fields, the
\* blocks, current_block and the owners table_ptr has stored; calls: the
\* lsdj_compress calls made, each with its slot, the positions it started
\* and ended at and how it returned
\* lines 207-211: the state of the loop after lsdj_compress has returned
\* for project i
Compressed(i, st, call, written_block_count) ==
  [ st EXCEPT
      !.blocks = call.w.buf,
      !.current_block = (st.current_block + written_block_count) % 256,
      !.owners = st.owners \o Fill(written_block_count, i),
      !.calls = Append(st.calls,
                  [ slot |-> i, start |-> call.writeStart,
                    end |-> call.w.pos, hi |-> call.w.hi,
                    pc |-> call.pc ]) ]

\* lines 202-212: the song of project i, when it has one
WriteProject(sav, i, st) ==
  IF ~sav.projects[i].song.present
  THEN st
  ELSE LET call == lsdj_compress(CompressStart(
                       lsdj_write_song_to_memory(sav.projects[i].song),
                       st.blocks, st.current_block * BLOCK_SIZE, st.current_block))
       IN Compressed(i, st, call, WrittenBlockCount(call))

RECURSIVE WriteProjects(_, _, _)
WriteProjects(sav, i, st) ==
  IF i = SAV_PROJECT_COUNT THEN st
  ELSE WriteProjects(sav, i + 1,
         WriteProject(sav, i,
           [ st EXCEPT !.names = st.names \o sav.projects[i].name,
                       !.versions = Append(st.versions, sav.projects[i].version) ]))

\* the loop of sav.c:194-213 run from the state of lines 179-193
WriteSavLoop(sav) ==
  WriteProjects(sav, 0,
    [ names |-> << >>, versions |-> << >>,
      blocks |-> Fill(BLOCK_SIZE * BLOCK_COUNT, 0),
      current_block |-> 0, owners |-> << >>, calls |-> << >> ])

\* lines 179-183, 197-200: the header, with what the loop has stored in it
SavHeader(sav, st) ==
  st.names \o st.versions \o Fill(HeaderEmptyLength, 0) \o JK \o << sav.active_project >>

\* lines 186-188, 211: the block allocation table, 0xFF where no owner
\* was stored
BlockAllocTable(st) == Take(st.owners \o Fill(BLOCK_COUNT, 255), BLOCK_COUNT)

\* a file that holds the blocks before the owner table
SavFile_BlocksFirst(sav, st) ==
  [ bytes |-> lsdj_write_song_to_memory(sav.song) \o SavHeader(sav, st)
                \o st.blocks \o BlockAllocTable(st),
    error |-> "", current_block |-> st.current_block, calls |-> st.calls,
    blocks |-> st.blocks ]

\* lines 173-176, 215-218: the bytes written to the file, the error
\* created (no line behind the fopen creates one), and current_block, the
\* blocks and the lsdj_compress calls as the loop left them
SavFile(sav, st) ==
  [ bytes |-> lsdj_write_song_to_memory(sav.song) \o SavHeader(sav, st)
                \o BlockAllocTable(st) \o st.blocks,
    error |-> "", current_block |-> st.current_block, calls |-> st.calls,
    blocks |-> st.blocks ]

\* lsdj_write_sav
lsdj_write_sav(sav) == SavFile(sav, WriteSavLoop(sav))

\* lsdj_decompress run to its return
RECURSIVE lsdj_decompress(_)
lsdj_decompress(call) ==
  IF call.pc = "run" THEN lsdj_decompress(DecompressAdvance(call)) ELSE call

\* an init check that looks at the first byte only
InitIsJK_FirstByte(init) == init[1] = 106

\* sav.c:74
InitIsJK(init) == init[1] = 106 /\ init[2] = 107

\* the song decompressed from block i (sav.c:42-47); the call's result is
\* not looked at, and what it did not write of data keeps the stack's bytes
DecompressBlock(blocks, i) ==
  lsdj_decompress(DecompressStart(blocks, i * BLOCK_SIZE, LSDJ_SONG_BYTE_COUNT, 0, TRUE))

SongOfBlock(blocks, i, stack) ==
  LET call == DecompressBlock(blocks, i)
  IN lsdj_read_song_from_memory(
       call.out \o Fill(LSDJ_SONG_BYTE_COUNT - Len(call.out), stack))

\* the loop of read_compressed_blocks from block i on.
\*   st.projects: the slots of sav; st.outside: is a song attached to the
\*   slot an owner byte outside the array names; st.outOfBounds: has the
\*   loop written outside the array; st.returned: has "if (error) return"
\*   left the loop; st.outsideRead: has the loop read a slot outside the
\*   array; st.decompressed: the blocks lsdj_decompress was called at, in
\*   order; st.decodeFailed: has one of these calls not returned true
RECURSIVE ReadBlocks(_, _, _, _, _, _)
ReadBlocks(block_alloc_table, blocks, i, errorGiven, stack, st) ==
  IF i = BLOCK_COUNT \/ st.returned THEN st
  ELSE LET project == block_alloc_table[i + 1]
           inside == project < SAV_PROJECT_COUNT
           attached == IF inside THEN st.projects[project].song.present ELSE st.outside
           read == SongOfBlock(blocks, i, stack)
       IN IF attached
          THEN ReadBlocks(block_alloc_table, blocks, i + 1, errorGiven, stack,
                          [ st EXCEPT !.outsideRead = @ \/ ~inside ])
          ELSE ReadBlocks(block_alloc_table, blocks, i + 1, errorGiven, stack,
                 [ projects |-> IF inside
                                THEN [ st.projects EXCEPT ![project].song = read ]
                                ELSE st.projects,
                   outside |-> st.outside \/ ~inside,
                   outOfBounds |-> st.outOfBounds \/ ~inside,
                   outsideRead |-> st.outsideRead \/ ~inside,
                   decompressed |-> Append(st.decompressed, i),
                   decodeFailed |-> st.decodeFailed
                                      \/ DecompressBlock(blocks, i).pc # "ok",
                   returned |-> errorGiven ])

\* read_compressed_blocks: the stream is behind the header
\*   undefined.slot: does the read of the song pointer of a slot outside
\*   the array find one; undefined.stack: the byte the stack holds
read_compressed_blocks(file, position, projects, errorGiven, undefined) ==
  ReadBlocks(Bytes(file, position, BLOCK_COUNT),
             Bytes(file, position + BLOCK_COUNT, BLOCK_COUNT * BLOCK_SIZE),
             0, errorGiven, undefined.stack,
             [ projects |-> projects, outside |-> undefined.slot,
               outOfBounds |-> FALSE, outsideRead |-> FALSE,
               decompressed |-> << >>, decodeFailed |-> FALSE,
               returned |-> FALSE ])

\* lsdj_read_sav on the bytes of a file into sav.
\*   pc: "init" (returned at line 75), "projects" (returned at line 90), "ok"
lsdj_read_sav(file, sav, errorGiven, undefined) ==
  LET header == Bytes(file, HEADER_START, HeaderSize)
      init == SubSeq(header, HeaderInit + 1, HeaderInit + 2)
      named == [ sav EXCEPT
                   !.projects = [ i \in 0..(SAV_PROJECT_COUNT - 1) |->
                       [ sav.projects[i] EXCEPT
                           !.name = SubSeq(header, i * ProjectNameLength + 1,
                                           (i + 1) * ProjectNameLength),
                           !.version = header[HeaderVersions + i + 1] ] ],
                   !.active_project = header[HeaderActiveProject + 1] ]
      compressed == read_compressed_blocks(file, HEADER_START + HeaderSize,
                                           named.projects, errorGiven, undefined)
      projects == [ named EXCEPT !.projects = compressed.projects ]
  IN IF ~InitIsJK(init)
     THEN [ pc |-> "init", sav |-> sav, init |-> init,
            error |-> IF errorGiven THEN "SRAM initialization check wasn't 'jk'"
                                    ELSE "",
            outOfBounds |-> FALSE, outsideRead |-> FALSE,
            decompressed |-> << >>, decodeFailed |-> FALSE ]
     ELSE IF errorGiven
     THEN [ pc |-> "projects", sav |-> projects, init |-> init, error |-> "",
            outOfBounds |-> compressed.outOfBounds,
            outsideRead |-> compressed.outsideRead,
            decompressed |-> compressed.decompressed,
            decodeFailed |-> compressed.decodeFailed ]
     ELSE [ pc |-> "ok",
            sav |-> [ projects EXCEPT !.song = lsdj_read_song_from_memory(
                         Bytes(file, 0, LSDJ_SONG_BYTE_COUNT)) ],
            init |-> init, error |-> "",
            outOfBounds |-> compressed.outOfBounds,
            outsideRead |-> compressed.outsideRead,
            decompressed |-> compressed.decompressed,
            decodeFailed |-> compressed.decodeFailed ]

\* ------------------------------------------------------------------------
\* Table accessors (table.c) on the bytes of a song buffer
\* ------------------------------------------------------------------------

LSDJ_SONG_BUFFER_BYTES_COUNT == 32768
ALLOCATION_TABLE_OFFSET == 8224
ALLOCATION_TABLE_LENGTH == 50
ENVELOPES_OFFSET == 5776
TRANSPOSITION_OFFSET == 13440
COMMAND1_OFFSET == 13952
COMMAND2_OFFSET == 14976
CONTENT_LENGTH == 512
LSDJ_TABLE_LENGTH == 16

\* the ordinal of command B, the last of the commands
LSDJ_COMMAND_B == 23

\* lsdj_song_get_format_version: the byte at 0x7FFF
lsdj_song_get_format_version(bytes) == bytes[32767 + 1]

\* an encoding that stores every ordinal as it is
CommandByte_Verbatim(command) == command % 256

\* the byte lsdj_table_set_command1/2 computes for format version >= 8
\* (lines 486-492, 541-547)
CommandByte(command) ==
  IF command = LSDJ_COMMAND_B THEN 1
  ELSE IF command > 1 THEN (command + 1) % 256
  ELSE command % 256

\* TABLE_SETTER, and the same three lines written out in the setters:
\* aborted when the assert fails, else the byte stored; at is the position
\* in song->bytes the call touched, -1 when it touched none
TABLE_SETTER(bytes, OFFSET, LENGTH, table, step, VALUE) ==
  LET index == table * LSDJ_TABLE_LENGTH + step
  IN IF index <= LENGTH
     THEN [ bytes |-> [ bytes EXCEPT ![OFFSET + index + 1] = VALUE ], aborted |-> FALSE,
            at |-> OFFSET + index ]
     ELSE [ bytes |-> bytes, aborted |-> TRUE, at |-> -1 ]

\* TABLE_GETTER: aborted when the assert fails, else the byte returned
TABLE_GETTER(bytes, OFFSET, LENGTH, table, step) ==
  LET index == table * LSDJ_TABLE_LENGTH + step
  IN IF index <= LENGTH
     THEN [ returned |-> bytes[OFFSET + index + 1], aborted |-> FALSE, at |-> OFFSET + index ]
     ELSE [ returned |-> 0, aborted |-> TRUE, at |-> -1 ]

\* lsdj_table_is_allocated: the byte of the allocation table as a bool
lsdj_table_is_allocated(bytes, table) ==
  LET index == ALLOCATION_TABLE_OFFSET + table
  IN IF index <= ALLOCATION_TABLE_OFFSET + ALLOCATION_TABLE_LENGTH
     THEN [ returned |-> bytes[index + 1] # 0, aborted |-> FALSE, at |-> index ]
     ELSE [ returned |-> FALSE, aborted |-> TRUE, at |-> -1 ]

lsdj_table_set_envelope(bytes, table, step, value) ==
  TABLE_SETTER(bytes, ENVELOPES_OFFSET, CONTENT_LENGTH, table, step, value)

lsdj_table_get_transposition(bytes, table, step) ==
  TABLE_GETTER(bytes, TRANSPOSITION_OFFSET, CONTENT_LENGTH, table, step)

\* lsdj_table_set_command1 and lsdj_table_set_command2, which differ in the
\* offset only
SetCommand(bytes, OFFSET, table, step, command) ==
  IF lsdj_song_get_format_version(bytes) >= 8
  THEN TABLE_SETTER(bytes, OFFSET, CONTENT_LENGTH, table, step, CommandByte(command))
         @@ [ returned |-> TRUE ]
  ELSE IF command = LSDJ_COMMAND_B
  THEN [ bytes |-> bytes, aborted |-> FALSE, at |-> -1, returned |-> FALSE ]
  ELSE TABLE_SETTER(bytes, OFFSET, CONTENT_LENGTH, table, step, command % 256)
         @@ [ returned |-> TRUE ]

lsdj_table_set_command1(bytes, table, step, command) ==
  SetCommand(bytes, COMMAND1_OFFSET, table, step, command)

lsdj_table_set_command2(bytes, table, step, command) ==
  SetCommand(bytes, COMMAND2_OFFSET, table, step, command)

\* the command lsdj_table_get_command1/2 returns for a byte of format
\* version >= 8 (lines 516-521, 571-576)
CommandOf(byte) ==
  IF byte > 1 THEN byte - 1
  ELSE IF byte = 1 THEN LSDJ_COMMAND_B
  ELSE byte

\* lsdj_table_get_command1: for format version >= 8 the byte is read at
\* COMMAND2_OFFSET + index (line 514) after assert(index <= COMMAND1_OFFSET)
lsdj_table_get_command1(bytes, table, step) ==
  IF lsdj_song_get_format_version(bytes) >= 8
  THEN LET index == table * LSDJ_TABLE_LENGTH + step
       IN IF index <= COMMAND1_OFFSET
          THEN [ returned |-> CommandOf(bytes[COMMAND2_OFFSET + index + 1]),
                 aborted |-> FALSE, at |-> COMMAND2_OFFSET + index ]
          ELSE [ returned |-> 0, aborted |-> TRUE, at |-> -1 ]
  ELSE TABLE_GETTER(bytes, COMMAND1_OFFSET, COMMAND2_OFFSET, table, step)

\* lsdj_table_get_command2
lsdj_table_get_command2(bytes, table, step) ==
  IF lsdj_song_get_format_version(bytes) >= 8
  THEN LET index == table * LSDJ_TABLE_LENGTH + step
       IN IF index <= COMMAND2_OFFSET
          THEN [ returned |-> CommandOf(bytes[COMMAND2_OFFSET + index + 1]),
                 aborted |-> FALSE, at |-> COMMAND2_OFFSET + index ]
          ELSE [ returned |-> 0, aborted |-> TRUE, at |-> -1 ]
  ELSE TABLE_GETTER(bytes, COMMAND2_OFFSET, COMMAND2_OFFSET, table, step)

\* ------------------------------------------------------------------------
\* State
\* ------------------------------------------------------------------------

VARIABLES
  c,                \* the running lsdj_compress call
  d,                \* the running lsdj_decompress call
  firstBlockIndex,  \* the index the caller gives the first block of the region
  song,             \* the song handed to lsdj_write_song
  image,            \* the bytes lsdj_write_song wrote
  parsed,           \* what lsdj_read_song returned for the image
  sav,              \* the save handed to lsdj_write_sav
  file,             \* the bytes lsdj_write_sav wrote
  loaded,           \* what lsdj_read_sav did with the bytes of the file
  buffer,           \* the bytes of the song buffer the table accessors work on
  lastCall          \* the latest table accessor call and what it did

vars == << c, d, firstBlockIndex, song, image, parsed, sav, file, loaded,
           buffer, lastCall >>
codec == << c, d, firstBlockIndex >>
songs == << song, image, parsed >>
savs == << sav, file, loaded >>
accessors == << buffer, lastCall >>

\* a call that has not been made
Idle == [ pc |-> "none" ]

\* steps a decompression is followed for (a cyclic stream never returns)
MaxSteps == 30

\* ------------------------------------------------------------------------
\* Input images: MaxSegs pattern segments followed by a tail, cut to length
\* ------------------------------------------------------------------------

\* the bytes in front of the final 16-byte window of an image
BeforeFinalWindow == Fill(LSDJ_SONG_BYTE_COUNT - LSDJ_DEFAULT_WAVE_LENGTH, 9)

SegmentPatterns ==
  { LSDJ_DEFAULT_WAVE, LSDJ_DEFAULT_INSTRUMENT, << 0, 0, 0, 0, 0 >>,
    << 7, 7, 7 >>, << 1, 2 >>, << RUN_LENGTH_ENCODING_BYTE >>,
    << SPECIAL_ACTION_BYTE >>, BeforeFinalWindow }

ZeroTail == [ i \in 1..LSDJ_SONG_BYTE_COUNT |-> 0 ]
LiteralTail == [ i \in 1..LSDJ_SONG_BYTE_COUNT |-> 1 + (i % 5) ]

RECURSIVE Concat(_)
Concat(ss) == IF ss = << >> THEN << >> ELSE Head(ss) \o Concat(Tail(ss))

Images ==
  { Take(Concat(segs) \o tail, LSDJ_SONG_BYTE_COUNT) :
      segs \in [ 1..MaxSegs -> SegmentPatterns ], tail \in { ZeroTail, LiteralTail } }

\* the write stream of a compression: the block region and the room a file
\* has to grow, zeroed (sav.c:193), with the blocks of earlier projects
\* (everything before the write position) occupied
WCapacity == (LSDJ_BLOCK_COUNT + WExtraBlocks) * LSDJ_BLOCK_SIZE
EarlierByte == 170
WriteBuffer(wpos) == [ i \in 1..WCapacity |-> IF i <= wpos THEN EarlierByte ELSE 0 ]

\* ------------------------------------------------------------------------
\* Compression, then decompression of what was written
\* ------------------------------------------------------------------------

InitCompress ==
  /\ firstBlockIndex \in { 0, 1 }
  /\ \E data \in Images, blockOffset \in 0..(LSDJ_BLOCK_COUNT + 2) :
       /\ blockOffset >= firstBlockIndex
       /\ c = CompressStart(data,
                            WriteBuffer((blockOffset - firstBlockIndex) * LSDJ_BLOCK_SIZE),
                            (blockOffset - firstBlockIndex) * LSDJ_BLOCK_SIZE,
                            blockOffset)
  /\ d = Idle
  /\ song = Idle /\ image = Idle /\ parsed = Idle
  /\ sav = Idle /\ file = Idle /\ loaded = Idle
  /\ buffer = Idle /\ lastCall = Idle

\* one iteration of the loop of lsdj_compress
CompressLoop ==
  /\ c.pc = "loop"
  /\ c.read < c.end
  /\ c' = CompressIteration(c)
  /\ UNCHANGED << d, firstBlockIndex, songs, savs, accessors >>

\* the end of lsdj_compress
CompressEnd ==
  /\ c.pc = "loop"
  /\ c.read >= c.end
  /\ c' = CompressFinish(c)
  /\ UNCHANGED << d, firstBlockIndex, songs, savs, accessors >>

\* lsdj_decompress is called on the stream a successful compression wrote,
\* at the position the compression started from
DecompressWritten ==
  /\ c.pc = "ok"
  /\ d.pc = "none"
  /\ \E follow \in BOOLEAN :
       d' = DecompressStart(c.w.buf, c.writeStart,
                            LSDJ_SONG_BYTE_COUNT + OutExtra, 0, follow)
  /\ UNCHANGED << c, firstBlockIndex, songs, savs, accessors >>

\* one step of the running lsdj_decompress
DecompressStep ==
  /\ d.pc = "run"
  /\ d.steps < MaxSteps
  /\ d' = DecompressAdvance(d)
  /\ UNCHANGED << c, firstBlockIndex, songs, savs, accessors >>

NextCompress == CompressLoop \/ CompressEnd \/ DecompressWritten \/ DecompressStep

SpecCompress == InitCompress /\ [][NextCompress]_vars

\* ------------------------------------------------------------------------
\* Compression of whole images with the geometry of the build
\* ------------------------------------------------------------------------

\* blocks of the write stream of these compressions
BuildWriteBlocks == 3

\* back-to-back copies of a default constant, more than one event can count
ManyCopies == 300

\* bytes without runs, more than one block can hold
ManyLiterals == 600

\* an image: head, then fill bytes, then tail as its final bytes
Padded(head, fill, tail) ==
  [ i \in 1..BuildSongByteCount |->
      IF i <= Len(head) THEN head[i]
      ELSE IF i > BuildSongByteCount - Len(tail)
      THEN tail[i - (BuildSongByteCount - Len(tail))]
      ELSE fill ]

BuildImages ==
  { Padded(<< >>, 0, << >>),
    Padded(Repeat(LSDJ_DEFAULT_WAVE, ManyCopies), 0, << >>),
    Padded(Repeat(LSDJ_DEFAULT_INSTRUMENT, ManyCopies), 7, LSDJ_DEFAULT_INSTRUMENT),
    Padded([ i \in 1..ManyLiterals |-> 1 + (i % 5) ], 0, LSDJ_DEFAULT_WAVE),
    Padded(<< RUN_LENGTH_ENCODING_BYTE, SPECIAL_ACTION_BYTE, 7, 7, 7, 9, 9, 9, 9 >>,
           255, << 9, 9, 9 >>) }

BuildWriteBuffer == [ i \in 1..(BuildWriteBlocks * BuildBlockSize) |-> 0 ]

InitCompressBuild ==
  /\ firstBlockIndex \in { 0, 1 }
  /\ \E data \in BuildImages :
       c = CompressStartIn(BuildGeometry, data, BuildWriteBuffer, 0, firstBlockIndex)
  /\ d = Idle
  /\ song = Idle /\ image = Idle /\ parsed = Idle
  /\ sav = Idle /\ file = Idle /\ loaded = Idle
  /\ buffer = Idle /\ lastCall = Idle

NextCompressBuild == CompressLoop \/ CompressEnd

SpecCompressBuild == InitCompressBuild /\ [][NextCompressBuild]_vars

\* ------------------------------------------------------------------------
\* Decompression of hand-made streams
\* ------------------------------------------------------------------------

\* the pieces a stream is made of: literals, escapes, runs, default
\* constants, block jumps, markers outside the protocol, end of stream
StreamPieces ==
  { << 65 >>,
    << RUN_LENGTH_ENCODING_BYTE, RUN_LENGTH_ENCODING_BYTE >>,
    << RUN_LENGTH_ENCODING_BYTE, 66, 0 >>,
    << RUN_LENGTH_ENCODING_BYTE, 66, 3 >>,
    << SPECIAL_ACTION_BYTE, SPECIAL_ACTION_BYTE >>,
    << SPECIAL_ACTION_BYTE, LSDJ_DEFAULT_WAVE_BYTE, 1,
       RUN_LENGTH_ENCODING_BYTE, 65, LSDJ_SONG_BYTE_COUNT - LSDJ_DEFAULT_WAVE_LENGTH >>,
    << SPECIAL_ACTION_BYTE, LSDJ_DEFAULT_WAVE_BYTE, 0 >>,
    << SPECIAL_ACTION_BYTE, LSDJ_DEFAULT_INSTRUMENT_BYTE, 1 >>,
    << SPECIAL_ACTION_BYTE, 1 >>,
    << SPECIAL_ACTION_BYTE, 2 >>,
    << SPECIAL_ACTION_BYTE, 0 >>,
    << SPECIAL_ACTION_BYTE, 197 >>,
    << SPECIAL_ACTION_BYTE, LSDJ_END_OF_FILE_BLOCK_INDEX >> }

\* does the piece end a block (a special action that is no escape and no
\* default constant)
EndsBlock(piece) ==
  /\ Len(piece) = 2
  /\ piece[1] = SPECIAL_ACTION_BYTE
  /\ piece[2] \notin { SPECIAL_ACTION_BYTE, LSDJ_DEFAULT_WAVE_BYTE,
                       LSDJ_DEFAULT_INSTRUMENT_BYTE }

\* the pieces laid out one after the other, the rest of a block being
\* zero after a piece that ends it
RECURSIVE LayOut(_, _)
LayOut(pieces, sofar) ==
  IF pieces = << >> THEN sofar
  ELSE LET placed == sofar \o Head(pieces)
           rest == (LSDJ_BLOCK_SIZE - (Len(placed) % LSDJ_BLOCK_SIZE)) % LSDJ_BLOCK_SIZE
       IN LayOut(Tail(pieces),
                 IF EndsBlock(Head(pieces)) THEN placed \o Repeat(<< 0 >>, rest)
                                            ELSE placed)

RegionSize == LSDJ_BLOCK_COUNT * LSDJ_BLOCK_SIZE

\* the block region holding the laid out pieces, zero behind them
Region(pieces) ==
  LET laid == LayOut(pieces, << >>)
  IN [ i \in 1..RegionSize |-> IF i <= Len(laid) THEN laid[i] ELSE 0 ]

InitDecompress ==
  /\ firstBlockIndex = 0
  /\ c = Idle
  /\ song = Idle /\ image = Idle /\ parsed = Idle
  /\ sav = Idle /\ file = Idle /\ loaded = Idle
  /\ buffer = Idle /\ lastCall = Idle
  /\ \E pieces \in [ 1..MaxEvents -> StreamPieces ],
        block \in 0..(LSDJ_BLOCK_COUNT - 1), follow \in BOOLEAN :
       d = DecompressStart(Region(pieces), block * LSDJ_BLOCK_SIZE,
                           LSDJ_SONG_BYTE_COUNT + OutExtra, 0, follow)

NextDecompress == DecompressStep

SpecDecompress == InitDecompress /\ [][NextDecompress]_vars

\* ------------------------------------------------------------------------
\* Writing a song and reading it back
\* ------------------------------------------------------------------------

InitSong ==
  /\ c = Idle /\ d = Idle /\ firstBlockIndex = 0
  /\ \E seed \in 1..MaxSeed, chains \in ChainSets, phrases \in PhraseSets,
        instruments \in InstrumentSets, tables \in TableSets :
       song = MakeSong(seed, chains, phrases, instruments, tables)
  /\ image = Idle
  /\ parsed = Idle
  /\ sav = Idle /\ file = Idle /\ loaded = Idle
  /\ buffer = Idle /\ lastCall = Idle

\* lsdj_write_song on the song, into an empty stream
WriteSong ==
  /\ image = Idle
  /\ image' = [ pc |-> "written", bytes |-> lsdj_write_song(song) ]
  /\ UNCHANGED << codec, song, parsed, savs, accessors >>

\* the offsets of the three "rb" flags in a song image
RbOffsets == { 7800, 16000, 32752 }

\* the byte pairs a stream may hold where a flag belongs
RbMarks == { RB, << 114, 0 >>, << 0, 98 >> }

\* the position of the image in the stream, when not at its start
SongBegin == 5

\* the stream lsdj_read_song is given: the image behind begin other bytes,
\* with the byte pairs at the three flag offsets as the storage returns them
Stream(bytes, begin, marks) ==
  [ k \in 1..(begin + Len(bytes)) |->
      IF k <= begin THEN 0
      ELSE IF (k - begin - 1) \in RbOffsets THEN marks[k - begin - 1][1]
      ELSE IF (k - begin - 2) \in RbOffsets THEN marks[k - begin - 2][2]
      ELSE bytes[k - begin] ]

\* lsdj_read_song on a stream holding the written image at position begin
ReadSong ==
  /\ image # Idle
  /\ parsed = Idle
  /\ \E begin \in { 0, SongBegin }, marks \in [ RbOffsets -> RbMarks ] :
       parsed' = [ pc |-> "read", begin |-> begin, marks |-> marks,
                   result |-> lsdj_read_song(Stream(image.bytes, begin, marks), begin) ]
  /\ UNCHANGED << codec, song, image, savs, accessors >>

\* lsdj_write_song on the song lsdj_read_song returned
RewriteSong ==
  /\ parsed # Idle
  /\ parsed.pc = "read"
  /\ parsed.result.ok
  /\ parsed' = [ pc |-> "rewritten", begin |-> parsed.begin, marks |-> parsed.marks,
                 result |-> parsed.result,
                 rewritten |-> lsdj_write_song(parsed.result.song) ]
  /\ UNCHANGED << codec, song, image, savs, accessors >>

NextSong == WriteSong \/ ReadSong \/ RewriteSong

SpecSong == InitSong /\ [][NextSong]_vars

\* the stream read held the bytes lsdj_write_song wrote, unchanged
ReadAsWritten == parsed # Idle /\ \A o \in RbOffsets : parsed.marks[o] = RB

ProjectName(byte) == Fill(ProjectNameLength, byte)

\* the project slots a save is made of: an empty one, and songs whose
\* images take one block, one block, two blocks, and more blocks than the
\* region has
ProjectChoices ==
  { [ name |-> ProjectName(0), version |-> 0, song |-> Absent ],
    [ name |-> ProjectName(65), version |-> 1,
      song |-> [ present |-> TRUE, image |-> ZeroTail ] ],
    [ name |-> ProjectName(66), version |-> 2,
      song |-> [ present |-> TRUE,
                 image |-> Take(<< 1, 2 >> \o ZeroTail, LSDJ_SONG_BYTE_COUNT) ] ],
    [ name |-> ProjectName(67), version |-> 3,
      song |-> [ present |-> TRUE,
                 image |-> Take(LSDJ_DEFAULT_WAVE \o ZeroTail, LSDJ_SONG_BYTE_COUNT) ] ],
    [ name |-> ProjectName(68), version |-> 4,
      song |-> [ present |-> TRUE, image |-> LiteralTail ] ] }

\* the lsdj_sav_t a caller hands to lsdj_read_sav: no song attached, the
\* other fields holding what an earlier use left
StaleByte == 63
StaleSav ==
  [ active_project |-> StaleByte,
    projects |-> [ i \in 0..(SAV_PROJECT_COUNT - 1) |->
                     [ name |-> ProjectName(StaleByte), version |-> StaleByte,
                       song |-> Absent ] ],
    song |-> Absent ]

\* the init bytes a file may hold
InitMarkers == { JK, << 106, 0 >>, << 0, 107 >>, << 107, 106 >>, << 0, 0 >> }

\* the file with the init bytes of its header replaced
WithInit(bytes, init) ==
  [ k \in 1..Len(bytes) |->
      IF k = HEADER_START + HeaderInit + 1 THEN init[1]
      ELSE IF k = HEADER_START + HeaderInit + 2 THEN init[2]
      ELSE bytes[k] ]

\* what the reads the C standard leaves undefined may find
UndefinedOutcomes == [ slot : BOOLEAN, stack : { 0, 85 } ]

InitSav ==
  /\ c = Idle /\ d = Idle /\ firstBlockIndex = 0
  /\ song = Idle /\ image = Idle /\ parsed = Idle
  /\ \E projects \in [ 0..(SAV_PROJECT_COUNT - 1) -> ProjectChoices ],
        active_project \in 0..(SAV_PROJECT_COUNT - 1),
        working \in { ZeroTail, LiteralTail } :
       sav = [ active_project |-> active_project,
               projects |-> projects,
               song |-> [ present |-> TRUE, image |-> working ] ]
  /\ file = Idle
  /\ loaded = Idle
  /\ buffer = Idle /\ lastCall = Idle

\* lsdj_write_sav on the save
WriteSav ==
  /\ file = Idle
  /\ file' = [ pc |-> "written" ] @@ lsdj_write_sav(sav)
  /\ UNCHANGED << codec, songs, sav, loaded, accessors >>

\* lsdj_read_sav on the bytes of the file, as the storage returns them
ReadSav ==
  /\ file # Idle
  /\ loaded = Idle
  /\ \E init \in InitMarkers, errorGiven \in BOOLEAN, undefined \in UndefinedOutcomes :
       loaded' = [ pc |-> "read", errorGiven |-> errorGiven,
                   result |-> lsdj_read_sav(WithInit(file.bytes, init), StaleSav,
                                            errorGiven, undefined) ]
  /\ UNCHANGED << codec, songs, sav, file, accessors >>

NextSav == WriteSav \/ ReadSav

SpecSav == InitSav /\ [][NextSav]_vars

\* ------------------------------------------------------------------------
\* Calls of the table accessors on a song buffer
\* ------------------------------------------------------------------------

\* calls followed on one buffer
MaxCalls == 1

\* the format versions of the buffers, on either side of the change of
\* encoding
FormatVersions == { 7, 8 }

\* the table and step the calls are made with: the first and the last cell
\* of the tables, and the first and the last cell of the first table number
\* that is none
Cells == { << 0, 0 >>, << 31, LSDJ_TABLE_LENGTH - 1 >>,
           << 32, 0 >>, << 32, LSDJ_TABLE_LENGTH - 1 >> }
Commands == { 0, 1, 2, LSDJ_COMMAND_B - 1, LSDJ_COMMAND_B }

\* the table numbers lsdj_table_is_allocated is asked about, around the end
\* of the allocation table and around the bound of its assertion
AllocationIndices == { 0, 31, 32, ALLOCATION_TABLE_LENGTH, ALLOCATION_TABLE_LENGTH + 1 }

\* the values written to the cells that hold no command
CellValues == { 171 }

\* a song buffer of a format version, no two neighbouring bytes equal
SongBuffer(version) ==
  [ k \in 1..LSDJ_SONG_BUFFER_BYTES_COUNT |->
      IF k = LSDJ_SONG_BUFFER_BYTES_COUNT THEN version ELSE (k * 7) % 256 ]

InitTable ==
  /\ c = Idle /\ d = Idle /\ firstBlockIndex = 0
  /\ song = Idle /\ image = Idle /\ parsed = Idle
  /\ sav = Idle /\ file = Idle /\ loaded = Idle
  /\ \E version \in FormatVersions :
       buffer = [ pc |-> "song", bytes |-> SongBuffer(version), calls |-> 0 ]
  /\ lastCall = Idle

\* no assertion has ended the program
Running == IF lastCall.pc = "none" THEN TRUE ELSE ~lastCall.aborted

\* the call record of an accessor: OFFSET and LENGTH are the array of the
\* song the accessor is for, at the position the call touched
CallRecord(name, OFFSET, LENGTH, table, step, command, result) ==
  [ pc |-> name, offset |-> OFFSET, length |-> LENGTH, table |-> table, step |-> step,
    command |-> command, before |-> buffer.bytes,
    returned |-> result.returned, aborted |-> result.aborted, at |-> result.at ]

\* the buffer and the call record after a setter has run
AfterSetter(name, OFFSET, table, step, command, result) ==
  /\ buffer' = [ buffer EXCEPT !.bytes = result.bytes, !.calls = @ + 1 ]
  /\ lastCall' = CallRecord(name, OFFSET, CONTENT_LENGTH, table, step, command, result)

TableSetCommand1 ==
  /\ Running
  /\ buffer.calls < MaxCalls
  /\ \E cell \in Cells, command \in Commands :
       AfterSetter("lsdj_table_set_command1", COMMAND1_OFFSET, cell[1], cell[2], command,
                   lsdj_table_set_command1(buffer.bytes, cell[1], cell[2], command))
  /\ UNCHANGED << codec, songs, savs >>

TableSetCommand2 ==
  /\ Running
  /\ buffer.calls < MaxCalls
  /\ \E cell \in Cells, command \in Commands :
       AfterSetter("lsdj_table_set_command2", COMMAND2_OFFSET, cell[1], cell[2], command,
                   lsdj_table_set_command2(buffer.bytes, cell[1], cell[2], command))
  /\ UNCHANGED << codec, songs, savs >>

\* lsdj_table_get_command1 called right after the last of the calls, when
\* that was lsdj_table_set_command1 accepting a command, for the same table
\* and step
TableGetCommand1 ==
  /\ Running
  /\ buffer.calls = MaxCalls
  /\ lastCall.pc = "lsdj_table_set_command1" /\ lastCall.returned
  /\ lastCall' = CallRecord("lsdj_table_get_command1", COMMAND1_OFFSET, CONTENT_LENGTH,
                            lastCall.table, lastCall.step, lastCall.command,
                            lsdj_table_get_command1(buffer.bytes, lastCall.table, lastCall.step))
  /\ UNCHANGED << buffer, codec, songs, savs >>

\* lsdj_table_get_command2 called right after lsdj_table_set_command2
TableGetCommand2 ==
  /\ Running
  /\ buffer.calls = MaxCalls
  /\ lastCall.pc = "lsdj_table_set_command2" /\ lastCall.returned
  /\ lastCall' = CallRecord("lsdj_table_get_command2", COMMAND2_OFFSET, CONTENT_LENGTH,
                            lastCall.table, lastCall.step, lastCall.command,
                            lsdj_table_get_command2(buffer.bytes, lastCall.table, lastCall.step))
  /\ UNCHANGED << buffer, codec, songs, savs >>

TableSetEnvelope ==
  /\ Running
  /\ buffer.calls < MaxCalls
  /\ \E cell \in Cells, value \in CellValues :
       AfterSetter("lsdj_table_set_envelope", ENVELOPES_OFFSET, cell[1], cell[2], value,
                   lsdj_table_set_envelope(buffer.bytes, cell[1], cell[2], value)
                     @@ [ returned |-> TRUE ])
  /\ UNCHANGED << codec, songs, savs >>

TableGetTransposition ==
  /\ Running
  /\ buffer.calls < MaxCalls
  /\ \E cell \in Cells :
       lastCall' = CallRecord("lsdj_table_get_transposition", TRANSPOSITION_OFFSET,
                              CONTENT_LENGTH, cell[1], cell[2], 0,
                              lsdj_table_get_transposition(buffer.bytes, cell[1], cell[2]))
  /\ buffer' = [ buffer EXCEPT !.calls = @ + 1 ]
  /\ UNCHANGED << codec, songs, savs >>

TableIsAllocated ==
  /\ Running
  /\ buffer.calls < MaxCalls
  /\ \E table \in AllocationIndices :
       lastCall' = CallRecord("lsdj_table_is_allocated", ALLOCATION_TABLE_OFFSET,
                              TABLE_ALLOC_TABLE_SIZE, table, 0, 0,
                              lsdj_table_is_allocated(buffer.bytes, table))
  /\ buffer' = [ buffer EXCEPT !.calls = @ + 1 ]
  /\ UNCHANGED << codec, songs, savs >>

NextTable ==
  \/ TableSetCommand1 \/ TableSetCommand2
  \/ TableGetCommand1 \/ TableGetCommand2
  \/ TableSetEnvelope \/ TableGetTransposition \/ TableIsAllocated

SpecTable == InitTable /\ [][NextTable]_vars

\* ------------------------------------------------------------------------
\* Properties of the codec
\* ------------------------------------------------------------------------

\* the decompression has returned
Returned(call) == call.pc \in { "ok", "size", "io", "capacity", "guard" }

\* C1: whenever lsdj_compress succeeded, lsdj_decompress following block
\* jumps from the position the compression started at, with the start of
\* the block region as firstBlockPosition, returns success having written
\* exactly the input image.
C1_CodecRoundTrip ==
  (c.pc = "ok" /\ d.pc # "none" /\ d.followBlockJumps /\ Returned(d))
    => (d.pc = "ok" /\ d.out = c.data)

\* what the stream protocol prescribes for the bytes one step consumed
Prescribed(consumed) ==
  IF Len(consumed) = 1 THEN consumed
  ELSE IF consumed[1] = RUN_LENGTH_ENCODING_BYTE
  THEN IF Len(consumed) = 2 THEN << RUN_LENGTH_ENCODING_BYTE >>
       ELSE Repeat(<< consumed[2] >>, consumed[3])
  ELSE IF Len(consumed) = 2
  THEN IF consumed[2] = SPECIAL_ACTION_BYTE THEN << SPECIAL_ACTION_BYTE >> ELSE << >>
  ELSE IF consumed[2] = LSDJ_DEFAULT_WAVE_BYTE
  THEN Repeat(LSDJ_DEFAULT_WAVE, consumed[3])
  ELSE Repeat(LSDJ_DEFAULT_INSTRUMENT, consumed[3])

\* the bytes one step consumed form exactly one event of the protocol
WellFormedEvent(consumed) ==
  \/ Len(consumed) = 1
       /\ consumed[1] \notin { RUN_LENGTH_ENCODING_BYTE, SPECIAL_ACTION_BYTE }
  \/ Len(consumed) = 2
       /\ consumed[1] = RUN_LENGTH_ENCODING_BYTE
       /\ consumed[2] = RUN_LENGTH_ENCODING_BYTE
  \/ Len(consumed) = 3
       /\ consumed[1] = RUN_LENGTH_ENCODING_BYTE
       /\ consumed[2] # RUN_LENGTH_ENCODING_BYTE
  \/ Len(consumed) = 2
       /\ consumed[1] = SPECIAL_ACTION_BYTE
       /\ consumed[2] \notin { LSDJ_DEFAULT_WAVE_BYTE, LSDJ_DEFAULT_INSTRUMENT_BYTE }
  \/ Len(consumed) = 3
       /\ consumed[1] = SPECIAL_ACTION_BYTE
       /\ consumed[2] \in { LSDJ_DEFAULT_WAVE_BYTE, LSDJ_DEFAULT_INSTRUMENT_BYTE }

\* C4: every lsdj_decompress_step that succeeds consumes one event of the
\* protocol and emits what the protocol prescribes for it: a plain byte
\* verbatim, C0 C0 one 0xC0, C0 X N the byte X N times, E0 E0 one 0xE0,
\* E0 F0 N the default wave N times, E0 F1 N the default instrument N
\* times, a block jump or end of stream nothing.
C4_StepSemantics ==
  (d.pc \in { "run", "ok", "size" } /\ d.steps > 0)
    => (WellFormedEvent(d.consumed) /\ d.emitted = Prescribed(d.consumed))

C4_Witness ==
  /\ d.pc = "run"
  /\ d.consumed = << SPECIAL_ACTION_BYTE, LSDJ_DEFAULT_WAVE_BYTE, 1 >>
  /\ d.emitted = LSDJ_DEFAULT_WAVE

\* C5: under the numbering of the save writer (the first block of the
\* region is block 0) every jump marker E0 v that lsdj_compress wrote sends
\* the decoder to the start of the block written right after the closed
\* one, and the decoder following jumps never enters a block twice.
C5_JumpNamesNextBlock ==
  firstBlockIndex = 0 =>
    /\ c.pc # "none" =>
         \A k \in 1..Len(c.closed) :
           JumpTarget(0, c.closed[k].marker) = c.closed[k].next
    /\ (c.pc = "ok" /\ d.pc # "none" /\ d.followBlockJumps) =>
         \A i, j \in 1..Len(d.entered) : i # j => d.entered[i] # d.entered[j]

\* C6: lsdj_decompress returns success only if exactly LSDJ_SONG_BYTE_COUNT
\* bytes were written; reaching the end of stream with any other number of
\* bytes written is an error.
C6_SizeCheck ==
  /\ d.pc = "ok" => d.writeCounter = LSDJ_SONG_BYTE_COUNT
  /\ (d.pc \in { "ok", "size" } /\ d.writeCounter # LSDJ_SONG_BYTE_COUNT)
       => d.pc = "size"

C6_Witness ==
  /\ d.pc = "size"
  /\ d.writeCounter > LSDJ_SONG_BYTE_COUNT
  /\ d.nextBlockIndex = LSDJ_END_OF_FILE_BLOCK_INDEX

\* the values that may follow a 0xE0 marker to end a block: a block jump
\* 0x01..0xBF or the end of stream 0xFF
ProtocolBlockIndices == (1..191) \cup { LSDJ_END_OF_FILE_BLOCK_INDEX }

\* C7: lsdj_decompress fails when the byte after a 0xE0 marker is none of
\* 0xE0, 0xF0, 0xF1, 0xFF or a block jump 0x01..0xBF, and when the input
\* ends before an end of stream marker is read.
C7_MalformedRejected ==
  d.pc = "ok" =>
    /\ \A k \in 1..Len(d.left) : d.left[k] \in ProtocolBlockIndices
    /\ d.nextBlockIndex = LSDJ_END_OF_FILE_BLOCK_INDEX

\* C8: when lsdj_compress fails because the block budget is exhausted, the
\* write position is the one at the call and every byte between it and the
\* furthest position written is zero.
C8_CapacityRollsBack ==
  c.pc = "capacity" =>
    /\ c.w.pos = c.writeStart
    /\ \A i \in (c.writeStart + 1)..c.w.hi : c.w.buf[i] = 0

C8_Witness ==
  /\ c.pc = "capacity"
  /\ c.w.hi >= c.writeStart + 2 * LSDJ_BLOCK_SIZE

\* blocks of the write stream a compression has written into
BlocksOccupied(call) ==
  (call.w.hi - call.writeStart + LSDJ_BLOCK_SIZE - 1) \div LSDJ_BLOCK_SIZE

\* C9: lsdj_compress started at block index start succeeds only if its
\* output occupies at most LSDJ_BLOCK_COUNT - start blocks, never writes at
\* or beyond the end of the last block of the region, and fails without
\* writing when start is at or past the budget.
C9_BlockBudget ==
  c.pc # "none" =>
    /\ c.pc = "ok" =>
         BlocksOccupied(c) <= LSDJ_BLOCK_COUNT - (c.blockOffset - firstBlockIndex)
    /\ c.w.hi > c.writeStart => c.w.hi <= RegionSize
    /\ c.blockOffset - firstBlockIndex >= LSDJ_BLOCK_COUNT =>
         (c.pc \notin { "ok" } /\ c.w.hi = c.writeStart)

\* C21: lsdj_decompress terminates on every block region, for both values
\* of followBlockJumps, whatever its jump markers point at: a running call
\* never enters a block it has entered before without having written a
\* byte in between (from such a configuration the same steps repeat
\* forever, the decoder having no other state).
C21_DecompressionBounded ==
  d.pc # "none" =>
    \A i, j \in 1..Len(d.entered) :
      (i < j /\ d.entered[i] = d.entered[j]) => d.enteredOut[i] < d.enteredOut[j]

\* back-to-back copies of a 16-byte constant that lie inside the image from
\* offset at on
Copies(data, at, end, pattern) ==
  LET IsCopy(k) == /\ at + k * Len(pattern) + Len(pattern) <= end
                   /\ MatchesAt(data, at + k * Len(pattern), pattern)
  IN CHOOSE k \in 0..(end \div Len(pattern)) :
       ~IsCopy(k) /\ \A j \in 0..(k - 1) : IsCopy(j)

\* the latest event is the one of a default constant
IsDefaultEvent(event, byte) ==
  Len(event) = 3 /\ event[1] = SPECIAL_ACTION_BYTE /\ event[2] = byte

\* an iteration of the loop of lsdj_compress has built an event
EventBuilt == c.pc # "none" /\ c.event # << >>

\* C22: at every position where lsdj_compress starts a new event it emits
\* E0 F0 n if and only if the 16 bytes at that position equal the default
\* wave, and otherwise E0 F1 n if and only if they equal the default
\* instrument, n being the number of back-to-back copies consumed, maximal
\* up to 255; this holds for every 16-byte window inside the image, the
\* final 16 bytes included.
C22_DefaultsEncoded ==
  EventBuilt =>
    LET waves == Min(Copies(c.data, c.at, c.end, LSDJ_DEFAULT_WAVE), 255)
        instruments == Min(Copies(c.data, c.at, c.end, LSDJ_DEFAULT_INSTRUMENT), 255)
    IN /\ IsDefaultEvent(c.event, LSDJ_DEFAULT_WAVE_BYTE) <=> waves > 0
       /\ IsDefaultEvent(c.event, LSDJ_DEFAULT_WAVE_BYTE) =>
            (c.event[3] = waves /\ c.read = c.at + waves * LSDJ_DEFAULT_WAVE_LENGTH)
       /\ waves = 0 =>
            /\ IsDefaultEvent(c.event, LSDJ_DEFAULT_INSTRUMENT_BYTE) <=> instruments > 0
            /\ IsDefaultEvent(c.event, LSDJ_DEFAULT_INSTRUMENT_BYTE) =>
                 /\ c.event[3] = instruments
                 /\ c.read = c.at + instruments * LSDJ_DEFAULT_INSTRUMENT_LENGTH

\* a default constant lies at the offset the latest event was built at
WindowIs(pattern) ==
  c.at + Len(pattern) <= c.end /\ MatchesAt(c.data, c.at, pattern)

\* the bytes equal to the one at offset at that follow each other from
\* there on inside the image, counted up to cap
RunUpTo(data, at, end, cap) ==
  LET limit == Min(end - at, cap)
      Same(k) == k < limit /\ data[at + k + 1] = data[at + 1]
  IN CHOOSE k \in 0..limit : ~Same(k) /\ \A j \in 0..(k - 1) : Same(j)

\* the image of the call is all zero
AllZero == \A k \in 1..c.end : c.data[k] = 0

\* the bytes written from the start of the call on
Output(k) == c.w.buf[c.writeStart + k]

\* C24: when no default constant matches at the current position,
\* lsdj_compress emits C0 C0 for a data byte 0xC0 and E0 E0 for a data byte
\* 0xE0, one input byte each; for any other byte followed by at least three
\* more bytes equal to it, it emits C0, the byte and the length of the run
\* consumed, which is maximal up to 255; otherwise it emits the byte as one
\* literal.  An all-zero image compresses to a single block that begins
\* C0 00 FF and ends its payload with E0 FF.
C24_EscapesAndRuns ==
  /\ (EventBuilt /\ ~WindowIs(LSDJ_DEFAULT_WAVE) /\ ~WindowIs(LSDJ_DEFAULT_INSTRUMENT)) =>
       LET byte == c.data[c.at + 1]
           run == RunUpTo(c.data, c.at, c.end, 255)
       IN IF byte = RUN_LENGTH_ENCODING_BYTE
          THEN c.event = << RUN_LENGTH_ENCODING_BYTE, RUN_LENGTH_ENCODING_BYTE >>
                 /\ c.read = c.at + 1
          ELSE IF byte = SPECIAL_ACTION_BYTE
          THEN c.event = << SPECIAL_ACTION_BYTE, SPECIAL_ACTION_BYTE >>
                 /\ c.read = c.at + 1
          ELSE IF run >= 4
          THEN c.event = << RUN_LENGTH_ENCODING_BYTE, byte, run >>
                 /\ c.read = c.at + run
          ELSE c.event = << byte >> /\ c.read = c.at + 1
  /\ (c.pc = "ok" /\ AllZero) =>
       /\ c.w.hi - c.writeStart = c.blockSize
       /\ c.closed = << >>
       /\ << Output(1), Output(2), Output(3) >> = << RUN_LENGTH_ENCODING_BYTE, 0, 255 >>
       /\ \E p \in 4..(c.blockSize - 1) :
            /\ Output(p) = SPECIAL_ACTION_BYTE
            /\ Output(p + 1) = LSDJ_END_OF_FILE_BLOCK_INDEX
            /\ \A k \in (p + 2)..c.blockSize : Output(k) = 0
            /\ \A k \in 1..(p - 1) :
                 (k % 3 = 1) => Output(k) = RUN_LENGTH_ENCODING_BYTE

C24_Witness ==
  /\ EventBuilt
  /\ c.end = BuildSongByteCount
  /\ c.at = 0
  /\ c.event = << RUN_LENGTH_ENCODING_BYTE, 0, 255 >>
  /\ c.read = 255
  /\ c.data[256] = 0

\* the block of the output the byte at a position of the write stream is in
BlockOf(position) == (position - c.writeStart) \div c.blockSize

\* the bytes of the write stream from position from up to position to are 0
ZeroBetween(from, to) == \A p \in (from + 1)..to : c.w.buf[p] = 0

\* C25: on every successful lsdj_compress the output is a positive whole
\* number of blocks; no event straddles a block boundary; after each event
\* the payload of the current block is at most the block size less 3 (509
\* of 512), so the 2-byte marker always fits and the assertion
\* currentBlockSize <= LSDJ_BLOCK_SIZE holds; every block but the last ends
\* its payload with E0 and the index of the next block, the last with
\* E0 FF, each followed only by zeros up to the end of the block.
C25_BlockStructure ==
  /\ (c.pc = "loop" /\ EventBuilt) =>
       /\ BlockOf(c.w.pos - Len(c.event)) = BlockOf(c.w.pos - 1)
       /\ c.currentBlockSize <= c.blockSize - 3
       /\ c.currentBlockSize = (c.w.pos - c.writeStart) % c.blockSize
       /\ c.currentBlockSize + 2 <= c.blockSize
  /\ c.pc = "ok" =>
       /\ c.w.hi > c.writeStart
       /\ c.w.hi = c.writeStart + (Len(c.closed) + 1) * c.blockSize
       /\ \A k \in 1..Len(c.closed) :
            LET block == c.closed[k]
            IN /\ BlockOf(block.at) = k - 1
               /\ block.at + 2 <= block.next
               /\ block.next = c.writeStart + k * c.blockSize
               /\ c.w.buf[block.at + 1] = SPECIAL_ACTION_BYTE
               /\ c.w.buf[block.at + 2] = (c.blockOffset + k) % 256
               /\ ZeroBetween(block.at + 2, block.next)
       /\ BlockOf(c.endAt) = Len(c.closed)
       /\ c.endAt + 2 <= c.w.hi
       /\ c.w.buf[c.endAt + 1] = SPECIAL_ACTION_BYTE
       /\ c.w.buf[c.endAt + 2] = LSDJ_END_OF_FILE_BLOCK_INDEX
       /\ ZeroBetween(c.endAt + 2, c.w.hi)

C25_Witness ==
  /\ c.pc = "ok"
  /\ Len(c.closed) = 2
  /\ c.writeStart > 0
  /\ c.closed[1].at < c.closed[1].next - 2
  /\ c.endAt = c.w.hi - 3

\* C26: on every run of lsdj_compress, successful or failed, every byte of
\* the write stream in front of the position the call started at is
\* unchanged, so the blocks of projects compressed earlier stay intact when
\* a later project fails.
C26_EarlierOutputKept ==
  c.pc # "none" =>
    \A p \in 1..c.writeStart : c.w.buf[p] = WriteBuffer(c.writeStart)[p]

C26_Witness ==
  /\ c.pc = "capacity"
  /\ c.writeStart >= LSDJ_BLOCK_SIZE
  /\ c.w.hi > c.writeStart
  /\ c.w.buf[c.writeStart] = EarlierByte
  /\ c.w.buf[c.writeStart + 1] = 0

\* a read position is a whole number of blocks from firstBlockPosition
Aligned(position) == (position - d.firstBlockPosition) % LSDJ_BLOCK_SIZE = 0

\* C27: whenever lsdj_decompress starts at a position that is a multiple
\* of the block size from firstBlockPosition, the read position after every
\* block jump and after the end of stream is such a multiple again, for
\* both values of followBlockJumps and however many bytes the steps of the
\* block consumed; the alignment assertion at the end of lsdj_decompress
\* never fails.
C27_BlockAlignment ==
  (d.pc # "none" /\ Aligned(d.readStart)) =>
    /\ \A k \in 1..Len(d.entered) : Aligned(d.entered[k])
    /\ d.pc \in { "ok", "size" } => Aligned(d.rpos)

C27_Witness ==
  /\ d.pc \in { "ok", "size" }
  /\ ~d.followBlockJumps
  /\ Aligned(d.readStart)
  /\ d.leftAt[Len(d.leftAt)] > d.start + LSDJ_BLOCK_SIZE
  /\ d.rpos = d.start + LSDJ_BLOCK_SIZE

\* C30: after any sequence of successful lsdj_decompress_step calls the
\* read counter has increased by exactly the number of bytes consumed from
\* the input stream by those steps, marker, operand and count bytes alike,
\* and the write counter by exactly the number of bytes emitted.
C30_CountersExact ==
  d.pc \in { "run", "ok", "size" } =>
    /\ d.readCounter = d.readTotal
    /\ d.writeCounter = Len(d.out)

\* ------------------------------------------------------------------------
\* Properties of the save container
\* ------------------------------------------------------------------------

\* the owner table of the written file
OwnerTable == Bytes(file.bytes, HEADER_START + HeaderSize, BLOCK_COUNT)

\* lsdj_write_sav has stored the song of every project that has one
AllStored ==
  \A i \in 0..(SAV_PROJECT_COUNT - 1) :
    sav.projects[i].song.present => \E b \in 1..BLOCK_COUNT : OwnerTable[b] = i

\* C3: for every save whose project songs fit in the blocks, lsdj_read_sav
\* on the bytes lsdj_write_sav wrote yields the same active-project index,
\* the same project names and versions, a song in exactly the slots that
\* had one, each equal to the original, and an equal working song.
C3_SaveRoundTrip ==
  (loaded # Idle /\ loaded.result.init = JK /\ AllStored) => loaded.result.sav = sav

\* C10: if the two init bytes of the header are not "j", "k", lsdj_read_sav
\* returns at the check with the error (stored through the error argument
\* when the caller gave one) and sav is as it was before the call: no name,
\* version, active-project index, project song or working song is written.
C10_InitCheck ==
  (loaded # Idle /\ loaded.result.init # JK) =>
    /\ loaded.result.pc = "init"
    /\ loaded.errorGiven => loaded.result.error = "SRAM initialization check wasn't 'jk'"
    /\ loaded.result.sav = StaleSav
    /\ ~loaded.result.outOfBounds

C10_Witness ==
  /\ loaded # Idle
  /\ loaded.result.init = << 106, 0 >>
  /\ loaded.result.pc = "init"
  /\ loaded.errorGiven
  /\ \E i \in 0..(SAV_PROJECT_COUNT - 1) : OwnerTable[1] = i
  /\ sav.active_project # StaleByte

\* the blocks of the written file a project slot owns
BlocksOf(slot) == { b \in 0..(BLOCK_COUNT - 1) : OwnerTable[b + 1] = slot }

\* the project slots that own a block
Owners == { slot \in 0..(SAV_PROJECT_COUNT - 1) : BlocksOf(slot) # {} }

\* the blocks lsdj_decompress was called at during the read
Decompressed ==
  { loaded.result.decompressed[k] : k \in 1..Len(loaded.result.decompressed) }

\* C12: lsdj_read_sav performs no decompression for a block whose owner
\* entry is 0xFF, and never reads or writes a project slot with an index
\* outside the slots of the save.
C12_FreeBlocksSkipped ==
  loaded # Idle =>
    /\ \A b \in Decompressed : OwnerTable[b + 1] # 255
    /\ ~loaded.result.outsideRead
    /\ ~loaded.result.outOfBounds

\* C13: after lsdj_read_sav on a well-formed save, every project slot that
\* owns a block has a song, and its stream was decompressed exactly once,
\* at the lowest block it owns, with or without an error argument.
C13_EachProjectOnce ==
  (loaded # Idle /\ loaded.result.init = JK) =>
    \A slot \in Owners :
      /\ loaded.result.sav.projects[slot].song.present
      /\ \E first \in BlocksOf(slot) :
           /\ \A b \in BlocksOf(slot) : first <= b
           /\ Decompressed \cap BlocksOf(slot) = { first }
           /\ Cardinality({ k \in 1..Len(loaded.result.decompressed) :
                              loaded.result.decompressed[k] = first }) = 1

\* C14: on every lsdj_read_sav call in which the init marker is valid and
\* all compressed projects decode without error, the working song of sav is
\* the song parsed from the image at offset 0 of the file, with or without
\* an error argument.
C14_WorkingSongLast ==
  (loaded # Idle /\ loaded.result.init = JK /\ ~loaded.result.decodeFailed) =>
    loaded.result.sav.song =
      lsdj_read_song_from_memory(Bytes(file.bytes, 0, LSDJ_SONG_BYTE_COUNT))

\* the blocks a lsdj_compress call of the writer has filled
BlocksUsed(call) ==
  IF call.pc = "ok" THEN (call.end - call.start) \div BLOCK_SIZE ELSE 0

\* the owner entries the calls of the writer stand for, in call order
RECURSIVE OwnersOf(_)
OwnersOf(calls) ==
  IF calls = << >> THEN << >>
  ELSE Fill(BlocksUsed(Head(calls)), Head(calls).slot) \o OwnersOf(Tail(calls))

\* C15: lsdj_write_sav allocates blocks first-fit from block 0 in slot
\* order: the owner table is, for the slots with songs in ascending order,
\* as many entries of the slot as its stream uses blocks, each stream
\* starting at the block behind the entries before it; every other entry
\* is 0xFF, slots without a song own no entry, and the number of entries
\* marked equals current_block.
C15_OwnerTable ==
  file # Idle =>
    LET owners == OwnersOf(file.calls)
        marked == { b \in 1..BLOCK_COUNT : OwnerTable[b] # 255 }
    IN /\ Len(owners) <= BLOCK_COUNT
       /\ \A b \in 1..BLOCK_COUNT :
            OwnerTable[b] = IF b <= Len(owners) THEN owners[b] ELSE 255
       /\ \A k \in 1..Len(file.calls) :
            /\ sav.projects[file.calls[k].slot].song.present
            /\ file.calls[k].start
                 = Len(OwnersOf(SubSeq(file.calls, 1, k - 1))) * BLOCK_SIZE
            /\ \A j \in 1..(k - 1) : file.calls[j].slot < file.calls[k].slot
       /\ \A slot \in 0..(SAV_PROJECT_COUNT - 1) :
            ~sav.projects[slot].song.present => BlocksOf(slot) = {}
       /\ Cardinality(marked) = file.current_block

C15_Witness ==
  /\ file # Idle
  /\ SAV_PROJECT_COUNT >= 2
  /\ BlocksOf(SAV_PROJECT_COUNT - 2) = { 0 }
  /\ BlocksOf(SAV_PROJECT_COUNT - 1) = { 1, 2 }
  /\ file.current_block = 3

\* C16: whenever the songs of the project slots do not all fit into the
\* blocks, lsdj_write_sav reports an error to its caller, and it never
\* marks an owner entry or writes a block byte beyond the blocks.
C16_CapacitySurfaces ==
  file # Idle =>
    /\ ~AllStored => file.error # ""
    /\ Len(OwnersOf(file.calls)) <= BLOCK_COUNT
    /\ \A k \in 1..Len(file.calls) : file.calls[k].hi <= BLOCK_COUNT * BLOCK_SIZE

\* the sizes of the parts of a save file of the format: 32 project slots,
\* 191 blocks of 512 bytes
FormatHeaderSize == 32 * ProjectNameLength + 32 + HeaderEmptyLength + 2 + 1
FormatFileSize == SONG_DECOMPRESSED_SIZE + FormatHeaderSize + 191 + 191 * 512

\* C17: lsdj_write_sav emits, in this order, the working song image, the
\* header (the names, the versions, 30 padding bytes, "j", "k", the active
\* project), the owner table and the blocks, and nothing else; with 32
\* slots and 191 blocks of 512 bytes the header is 321 bytes and the file
\* 131,072 bytes.
C17_FileLayout ==
  file # Idle =>
    LET at(off, n) == Bytes(file.bytes, off, n)
        slots == 0..(SAV_PROJECT_COUNT - 1)
    IN /\ Len(file.bytes) = LSDJ_SONG_BYTE_COUNT + HeaderSize
                              + BLOCK_COUNT + BLOCK_COUNT * BLOCK_SIZE
       /\ at(0, LSDJ_SONG_BYTE_COUNT) = sav.song.image
       /\ \A i \in slots :
            /\ at(HEADER_START + i * ProjectNameLength, ProjectNameLength)
                 = sav.projects[i].name
            /\ file.bytes[HEADER_START + SAV_PROJECT_COUNT * ProjectNameLength + i + 1]
                 = sav.projects[i].version
       /\ at(HEADER_START + SAV_PROJECT_COUNT * (ProjectNameLength + 1), HeaderEmptyLength)
            = Fill(HeaderEmptyLength, 0)
       /\ at(HEADER_START + SAV_PROJECT_COUNT * (ProjectNameLength + 1)
               + HeaderEmptyLength, 3) = << 106, 107, sav.active_project >>
       /\ HeaderSize = SAV_PROJECT_COUNT * (ProjectNameLength + 1) + HeaderEmptyLength + 3
       /\ at(HEADER_START + HeaderSize, BLOCK_COUNT) = 
            [ b \in 1..BLOCK_COUNT |->
                IF b <= Len(OwnersOf(file.calls)) THEN OwnersOf(file.calls)[b] ELSE 255 ]
       /\ at(HEADER_START + HeaderSize + BLOCK_COUNT, BLOCK_COUNT * BLOCK_SIZE)
            = file.blocks
       /\ FormatHeaderSize = 321
       /\ FormatFileSize = 131072

C17_Witness ==
  /\ file # Idle
  /\ file.calls # << >>
  /\ \E b \in 1..(BLOCK_COUNT * BLOCK_SIZE) : file.blocks[b] # 0
  /\ sav.active_project = SAV_PROJECT_COUNT - 1
  /\ sav.song.image = LiteralTail

\* ------------------------------------------------------------------------
\* Properties of the song image
\* ------------------------------------------------------------------------

\* the flag offsets at which the stream read did not hold "rb"
Mismatching == { o \in RbOffsets : parsed.marks[o] # RB }

\* the error lsdj_read_song creates for a flag offset
RbError(o) ==
  IF o = 7800 THEN "memory flag 'rb' not found at 0x1E78"
  ELSE IF o = 16000 THEN "memory flag 'rb' not found at 0x3E80"
  ELSE "memory flag 'rb' not found at 0x7FF0"

\* C11: lsdj_read_song checks the byte pairs at begin + 0x1E78, 0x3E80 and
\* 0x7FF0 first; if any pair is not "rb" it returns no song and the error
\* naming the first mismatching offset, and it returns a song only if all
\* three pairs match.
C11_RbCheck ==
  parsed # Idle =>
    /\ parsed.result.ok <=> Mismatching = {}
    /\ Mismatching # {} =>
         /\ "song" \notin DOMAIN parsed.result
         /\ \E o \in Mismatching :
              /\ \A other \in Mismatching : o <= other
              /\ parsed.result.error = RbError(o)

C11_Witness ==
  /\ parsed # Idle
  /\ parsed.begin = SongBegin
  /\ Mismatching = { 16000, 32752 }
  /\ parsed.marks[16000] = << 114, 0 >>
  /\ ~parsed.result.ok
  /\ parsed.result.error = RbError(16000)

\* lsdj_write_song has returned and the image has not been read yet
Written == image # Idle /\ parsed = Idle

\* C18: for every song, lsdj_write_song emits exactly 32,768 bytes, four
\* banks of 8,192 bytes in bank order, with "rb" at the image offsets
\* 0x1E78, 0x3E80 and 0x7FF0, the offsets lsdj_read_song verifies, and the
\* format version as the last byte, at 0x7FFF.
C18_ImageLayout ==
  Written =>
    /\ Len(image.bytes) = 32768
    /\ Len(write_bank0(song)) = 8192
    /\ Len(write_bank1(song)) = 8192
    /\ Len(write_bank2(song)) = 8192
    /\ Len(write_bank3(song)) = 8192
    /\ image.bytes = write_bank0(song) \o write_bank1(song)
                       \o write_bank2(song) \o write_bank3(song)
    /\ \A o \in { 7800, 16000, 32752 } :
         /\ Bytes(image.bytes, o, 2) = << 114, 98 >>
         /\ check_rb(image.bytes, o) = 0
    /\ RbOffsets = { 7800, 16000, 32752 }
    /\ image.bytes[32767 + 1] = song.formatVersion

C18_Witness ==
  /\ Written
  /\ song.formatVersion = 3 + MaxSeed
  /\ Allocated(song.phrases) = { 0, 8 }
  /\ Allocated(song.tables) = { 0, TABLE_COUNT - 1 }
  /\ Len(image.bytes) = 32768

\* the 16 bytes of entity i in the array at an image offset
EntityBytes(offset, i) == Bytes(image.bytes, offset + 16 * i, 16)

\* C19: for every index whose entity is absent, lsdj_write_song writes 16
\* bytes 0xFF for a chain's phrases, 16 bytes 0x00 for a chain's
\* transpositions, 16 bytes 0xFF for a phrase's instruments, the 16-byte
\* default instrument for an instrument payload, and 0x00 for every other
\* array of the entity: phrase notes, command codes and values, table
\* envelopes, transpositions, commands and values, instrument names.
C19_FillBytes ==
  Written =>
    /\ \A i \in 0..127 : ~song.chains[i].present =>
         /\ EntityBytes(8320, i) = Fill(16, 255)
         /\ EntityBytes(10368, i) = Fill(16, 0)
    /\ \A i \in 0..254 : ~song.phrases[i].present =>
         /\ EntityBytes(28672, i) = Fill(16, 255)
         /\ EntityBytes(0, i) = Fill(16, 0)
         /\ EntityBytes(16384, i) = Fill(16, 0)
         /\ EntityBytes(20464, i) = Fill(16, 0)
    /\ \A i \in 0..63 : ~song.instruments[i].present =>
         /\ EntityBytes(12416, i) = LSDJ_DEFAULT_INSTRUMENT
         /\ Bytes(image.bytes, 7802 + 5 * i, 5) = Fill(5, 0)
    /\ \A i \in 0..31 : ~song.tables[i].present =>
         /\ EntityBytes(5776, i) = Fill(16, 0)
         /\ EntityBytes(13440, i) = Fill(16, 0)
         /\ EntityBytes(13952, i) = Fill(16, 0)
         /\ EntityBytes(14464, i) = Fill(16, 0)
         /\ EntityBytes(14976, i) = Fill(16, 0)
         /\ EntityBytes(15488, i) = Fill(16, 0)

C19_Witness ==
  /\ Written
  /\ Allocated(song.chains) = { 0 }
  /\ Allocated(song.phrases) = { PHRASE_COUNT - 1 }
  /\ Allocated(song.instruments) = {}
  /\ Allocated(song.tables) = { 5 }
  /\ EntityBytes(8320, 1) = Fill(16, 255)
  /\ EntityBytes(8320, 0) # Fill(16, 255)

\* the song lsdj_read_song returned has been written again
Rewritten == parsed # Idle /\ parsed.pc = "rewritten"

\* the image lsdj_read_song was given: the bytes of the stream from begin on
ImageRead ==
  LET stream == Stream(image.bytes, parsed.begin, parsed.marks)
  IN [ k \in 1..SONG_DECOMPRESSED_SIZE |-> stream[parsed.begin + k] ]

\* the offset of the record of a synth, and of the reserved bytes in it
SynthOffset(i) == 16050 + i * (SYNTH_PARAMETER_COUNT + SYNTH_RESERVED_LENGTH)

\* the reserved regions of an image as offset and length: reserved1030,
\* reserved1fba, reserved2000, the two reserved metadata bytes (0x3FB9 and
\* 0x3FBF), reserved3fc6, reserved5fe0, reserved7ff2 and the 3 reserved bytes
\* of each synth record
ReservedRegions ==
  { << 4144, RESERVED1030_LENGTH >>, << 8122, RESERVED1FBA_LENGTH >>,
    << 8192, RESERVED2000_LENGTH >>, << 16313, 1 >>, << 16319, 1 >>,
    << 16326, RESERVED3FC6_LENGTH >>, << 24544, RESERVED5FE0_LENGTH >>,
    << 32754, RESERVED7FF2_LENGTH >> }
  \cup { << SynthOffset(i) + SYNTH_PARAMETER_COUNT, SYNTH_RESERVED_LENGTH >> :
           i \in 0..(SYNTH_COUNT - 1) }

\* C23: for every image with valid "rb" flags, the image lsdj_write_song
\* writes for the song lsdj_read_song returned equals the image read byte
\* for byte in every reserved region.
C23_ReservedSurvive ==
  Rewritten =>
    \A region \in ReservedRegions :
      Bytes(parsed.rewritten, region[1], region[2]) = Bytes(ImageRead, region[1], region[2])

C23_Witness ==
  /\ Rewritten
  /\ parsed.begin = SongBegin
  /\ Len(parsed.rewritten) = SONG_DECOMPRESSED_SIZE
  /\ \A region \in ReservedRegions :
       \E k \in 1..region[2] : ImageRead[region[1] + k] # 0
  /\ Bytes(ImageRead, SynthOffset(15) + SYNTH_PARAMETER_COUNT, SYNTH_RESERVED_LENGTH)
       = song.synths[15].reserved

\* ------------------------------------------------------------------------
\* Properties of the table accessors
\* ------------------------------------------------------------------------

\* the latest call was one of the two command setters
SetterCalled ==
  lastCall.pc \in { "lsdj_table_set_command1", "lsdj_table_set_command2" }

\* the byte of the buffer the latest call was about
CommandAt(bytes) == bytes[lastCall.offset + lastCall.table * 16 + lastCall.step + 1]

\* C20: for format version >= 8, lsdj_table_set_command1/2 stores byte 1
\* for command B, ordinal + 1 for a command with ordinal > 1 and the ordinal
\* itself for ordinals 0 and 1, and returns true; for format version < 8 it
\* stores the ordinal as it is, except that command B is rejected: the call
\* returns false and leaves every byte of the song unchanged.
C20_CommandEncoding ==
  (SetterCalled /\ ~lastCall.aborted) =>
    LET version == lastCall.before[32767 + 1]
        B == lastCall.command = LSDJ_COMMAND_B
    IN /\ version >= 8 =>
            /\ lastCall.returned
            /\ CommandAt(buffer.bytes) = IF B THEN 1
                                         ELSE IF lastCall.command > 1 THEN lastCall.command + 1
                                         ELSE lastCall.command
       /\ (version < 8 /\ ~B) =>
            /\ lastCall.returned
            /\ CommandAt(buffer.bytes) = lastCall.command
       /\ (version < 8 /\ B) =>
            /\ ~lastCall.returned
            /\ buffer.bytes = lastCall.before

C20_Witness ==
  /\ SetterCalled
  /\ lastCall.pc = "lsdj_table_set_command2"
  /\ lastCall.before[32767 + 1] = 8
  /\ lastCall.command = LSDJ_COMMAND_B - 1
  /\ lastCall.table = 31 /\ lastCall.step = 15
  /\ CommandAt(buffer.bytes) = LSDJ_COMMAND_B
  /\ CommandAt(lastCall.before) # LSDJ_COMMAND_B

\* the latest call was a command getter, made right after the setter of the
\* same command accepted lastCall.command for a cell of a table of the song
GetterCalled ==
  /\ lastCall.pc \in { "lsdj_table_get_command1", "lsdj_table_get_command2" }
  /\ ~lastCall.aborted
  /\ lastCall.table < TABLE_ALLOC_TABLE_SIZE
  /\ lastCall.step < LSDJ_TABLE_LENGTH

\* C28: for every format version, table < 32, step < 16 and command the
\* setter accepts, lsdj_table_get_command1 called right after
\* lsdj_table_set_command1 for the same table and step returns the command
\* that was set, and likewise for command2.
C28_CommandRoundTrip ==
  GetterCalled => lastCall.returned = lastCall.command

\* the latest call evaluated its assertion and passed it
AssertionPassed ==
  lastCall.pc # "none" /\ ~lastCall.aborted /\ lastCall.at >= 0

\* C29: every table accessor call whose assertion passes touches exactly
\* one byte inside its own region: for the cell setters and getters the
\* index table * 16 + step lies in [0, 512), the byte accessed lies in
\* [OFFSET, OFFSET + 512) of the accessor's own array and a setter changes
\* no other byte; for lsdj_table_is_allocated the byte read lies in the
\* 32-byte table allocation table at 0x2020.
C29_AccessorBounds ==
  AssertionPassed =>
    /\ lastCall.pc # "lsdj_table_is_allocated" =>
         /\ lastCall.table * LSDJ_TABLE_LENGTH + lastCall.step \in 0..(CONTENT_LENGTH - 1)
         /\ lastCall.at = lastCall.offset + lastCall.table * LSDJ_TABLE_LENGTH + lastCall.step
    /\ lastCall.at \in lastCall.offset..(lastCall.offset + lastCall.length - 1)
    /\ buffer.bytes = [ lastCall.before EXCEPT ![lastCall.at + 1] = buffer.bytes[lastCall.at + 1] ]

====
